---- MODULE Spec2Model ----
(***************************************************************************)
(* Verification model of llmforge: the retry handler                       *)
(* (src/strategies/retry/expo.ts), the orchestrator RunnerClient           *)
(* (src/index.ts) with the provider adapters it drives, and the stream     *)
(* processors (src/strategies/stream/*.ts).                                *)
(*                                                                         *)
(* Three specifications share the variables:                               *)
(*   SpecRetry  - one RetryHandler driven by an arbitrary operation        *)
(*   SpecRun    - RunnerClient.create / run over a list of endpoints       *)
(*   SpecStream - one stream processor reading one byte stream             *)
(***************************************************************************)
EXTENDS Integers, Sequences, FiniteSets, TLC

\* ------------------------------------------------------------------------
\* Bounds of the model
\* ------------------------------------------------------------------------
MaxRetries == 2

\* JavaScript `undefined` for an omitted numeric option
Undef == -1

\* x || d  and  x ?? d  on numbers
OrDefault(x, d) == IF x = Undef \/ x = 0 THEN d ELSE x
NullishDefault(x, d) == IF x = Undef THEN d ELSE x

\* ------------------------------------------------------------------------
\* Errors an operation can raise (types/index.ts and runtime errors)
\* ------------------------------------------------------------------------
\* cls: the class used by instanceof; name: error.name; message: error.message;
\* status: error.status ("" when absent, a status text otherwise);
\* code: error.code (Undef when absent); at: the invocation that raised it.
MkError(cls, name, message, status, code) ==
   [cls |-> cls, name |-> name, message |-> message, status |-> status, code |-> code, at |-> 0]

RetryableErr(message, code, status) == MkError("RetryableError", "RetryableError", message, status, code)
NonRetryableErr(message, code, status) == MkError("NonRetryableError", "NonRetryableError", message, status, code)

NoError == MkError("none", "none", "", "", Undef)

ErrorKinds ==
   { RetryableErr("rate limited", 429, "RATE_LIMITED"),
     RetryableErr("bad gateway", 502, ""),
     NonRetryableErr("unauthorized", 401, "UNAUTHORIZED"),
     NonRetryableErr("request timeout", 503, ""),
     NonRetryableErr("fetch failed", Undef, ""),
     MkError("Error", "TypeError", "fetch failed", "", Undef),
     MkError("Error", "AbortError", "aborted", "", Undef),
     MkError("Error", "Error", "request timeout", "", Undef),
     MkError("Error", "Error", "unavailable", "", 503),
     MkError("Error", "Error", "not found", "", 404),
     MkError("Error", "GeminiError", "unavailable", "UNAVAILABLE", 503),
     MkError("Error", "SyntaxError", "unexpected token", "", Undef) }

\* message.includes(word)
MessageIncludes(message, word) ==
   <<message, word>> \in { <<"fetch failed", "fetch">>, <<"request timeout", "timeout">> }

\* ------------------------------------------------------------------------
\* RetryHandler
\* ------------------------------------------------------------------------
DefaultRetryableStatusCodes == {429, 500, 502, 503, 504}

\* Partial<RetryConfig> values handed to the constructor
RetryDelayInputs == {Undef, 0, 100}
ExponentialInputs == {"undefined", "true", "false"}
StatusCodeInputs == { [given |-> FALSE, codes |-> {}], [given |-> TRUE, codes |-> {404}] }
RetryInputs ==
   [maxRetries : {Undef} \cup (0..MaxRetries),
    retryDelay : RetryDelayInputs,
    exponentialBackoff : ExponentialInputs,
    retryableStatusCodes : StatusCodeInputs]

\* Math.random() draws, in thousandths
JitterDraws == {0, 999}

RetryHandlerConstructor(c) ==
   [maxRetries |-> OrDefault(c.maxRetries, 3),
    retryDelay |-> OrDefault(c.retryDelay, 1000),
    exponentialBackoff |-> (c.exponentialBackoff # "false"),
    retryableStatusCodes |-> IF c.retryableStatusCodes.given
                             THEN c.retryableStatusCodes.codes
                             ELSE DefaultRetryableStatusCodes]

\* classification that looks at the message and status before the tags
isRetryableError_TagLast(cfg, e) ==
   IF e.name = "TypeError" /\ MessageIncludes(e.message, "fetch") THEN TRUE
   ELSE IF e.name = "AbortError" \/ MessageIncludes(e.message, "timeout") THEN TRUE
   ELSE IF e.cls = "NonRetryableError" THEN FALSE
   ELSE IF e.cls = "RetryableError" THEN TRUE
   ELSE IF e.status # "" THEN FALSE
   ELSE IF e.code # Undef /\ e.code # 0 THEN e.code \in cfg.retryableStatusCodes
   ELSE FALSE

isRetryableError(cfg, e) ==
   IF e.cls = "NonRetryableError" THEN FALSE
   ELSE IF e.cls = "RetryableError" THEN TRUE
   ELSE IF e.name = "TypeError" /\ MessageIncludes(e.message, "fetch") THEN TRUE
   ELSE IF e.name = "AbortError" \/ MessageIncludes(e.message, "timeout") THEN TRUE
   ELSE IF e.status # "" THEN FALSE   \* a status text is never in the number list
   ELSE IF e.code # Undef /\ e.code # 0 THEN e.code \in cfg.retryableStatusCodes
   ELSE FALSE

Pow2(n) == IF n = 0 THEN 1 ELSE IF n = 1 THEN 2 ELSE IF n = 2 THEN 4 ELSE IF n = 3 THEN 8 ELSE 16

calculateDelay(cfg, att, draw) ==
   IF ~cfg.exponentialBackoff THEN cfg.retryDelay
   ELSE LET baseDelay == cfg.retryDelay * Pow2(att)
        IN  baseDelay + ((draw * baseDelay) \div 10000)

VARIABLES
   retryInput,      \* the policy the caller asked for
   retryConfig,     \* RetryHandler.config
   rpc,             \* position in executeWithRetry
   attempt,         \* loop variable
   lastError,       \* lastError
   thrown,          \* the error executeWithRetry threw
   value,           \* the body executeWithRetry returned ("none" before it returns)
   invocations,     \* calls of operation() in the current executeWithRetry
   sleeps,          \* backoff sleeps begun in the current executeWithRetry
   delays,          \* the last two delays computed by calculateDelay, oldest first
   firstTag,        \* class of the error of the first invocation
   onlyRetryable    \* every invocation so far raised a RetryableError

retryVars == <<retryInput, retryConfig, rpc, attempt, lastError, thrown, value, invocations, sleeps, delays, firstTag, onlyRetryable>>

LastTwo(s) == IF Len(s) > 2 THEN Tail(s) ELSE s

\* what one invocation of operation() can do
\* (body: whether the parsed response body has the shape the adapter expects)
Outcomes ==
   {[ok |-> TRUE, err |-> NoError, body |-> b] : b \in {"valid", "malformed"}}
   \cup {[ok |-> FALSE, err |-> e, body |-> "none"] : e \in ErrorKinds}

\* executeWithRetry entered: attempt = 0, about to call operation()
RetryEnter ==
   /\ rpc' = "call"
   /\ attempt' = 0
   /\ lastError' = NoError
   /\ thrown' = NoError
   /\ value' = "none"
   /\ invocations' = 0
   /\ sleeps' = 0
   /\ delays' = <<>>
   /\ firstTag' = "none"
   /\ onlyRetryable' = TRUE

\* a handler that, once the loop is over, throws the error it caught before
\* the last one
RetryInvoke_ThrowEarlier(o) ==
   LET e == [o.err EXCEPT !.at = invocations + 1] IN
   /\ rpc = "call"
   /\ invocations' = invocations + 1
   /\ firstTag' = IF invocations = 0 THEN (IF o.ok THEN "ok" ELSE o.err.cls) ELSE firstTag
   /\ onlyRetryable' = (onlyRetryable /\ ~o.ok /\ o.err.cls = "RetryableError")
   /\ IF o.ok
      THEN /\ rpc' = "returned"
           /\ value' = o.body
           /\ UNCHANGED <<lastError, thrown, delays, sleeps>>
      ELSE /\ lastError' = e
           /\ UNCHANGED value
           /\ IF attempt = retryConfig.maxRetries
              THEN /\ rpc' = "thrown"
                   /\ thrown' = IF lastError = NoError THEN e ELSE lastError
                   /\ UNCHANGED <<delays, sleeps>>
              ELSE IF ~isRetryableError(retryConfig, e)
              THEN /\ rpc' = "thrown"
                   /\ thrown' = e
                   /\ UNCHANGED <<delays, sleeps>>
              ELSE \E draw \in JitterDraws :
                      /\ delays' = LastTwo(Append(delays, calculateDelay(retryConfig, attempt, draw)))
                      /\ sleeps' = sleeps + 1
                      /\ rpc' = "sleep"
                      /\ UNCHANGED thrown
   /\ UNCHANGED <<attempt, retryConfig, retryInput>>

\* await operation() settles with outcome o; runs up to the next await
RetryInvoke(o) ==
   LET e == [o.err EXCEPT !.at = invocations + 1] IN
   /\ rpc = "call"
   /\ invocations' = invocations + 1
   /\ firstTag' = IF invocations = 0 THEN (IF o.ok THEN "ok" ELSE o.err.cls) ELSE firstTag
   /\ onlyRetryable' = (onlyRetryable /\ ~o.ok /\ o.err.cls = "RetryableError")
   /\ IF o.ok
      THEN /\ rpc' = "returned"
           /\ value' = o.body
           /\ UNCHANGED <<lastError, thrown, delays, sleeps>>
      ELSE /\ lastError' = e
           /\ UNCHANGED value
           /\ IF attempt = retryConfig.maxRetries
              THEN /\ rpc' = "thrown"
                   /\ thrown' = e
                   /\ UNCHANGED <<delays, sleeps>>
              ELSE IF ~isRetryableError(retryConfig, e)
              THEN /\ rpc' = "thrown"
                   /\ thrown' = e
                   /\ UNCHANGED <<delays, sleeps>>
              ELSE \E draw \in JitterDraws :
                      /\ delays' = LastTwo(Append(delays, calculateDelay(retryConfig, attempt, draw)))
                      /\ sleeps' = sleeps + 1
                      /\ rpc' = "sleep"
                      /\ UNCHANGED thrown
   /\ UNCHANGED <<attempt, retryConfig, retryInput>>

\* no executeWithRetry in progress: the state a finished call is reset to
RetryIdle ==
   /\ rpc' = "idle"
   /\ attempt' = 0
   /\ lastError' = NoError
   /\ thrown' = NoError
   /\ value' = "none"
   /\ invocations' = 0
   /\ sleeps' = 0
   /\ delays' = <<>>
   /\ firstTag' = "none"
   /\ onlyRetryable' = TRUE

\* a handler that sleeps a second time before it goes back to the loop head
RetryWake_SleepsTwice ==
   /\ rpc = "sleep"
   /\ IF sleeps = invocations
      THEN /\ sleeps' = sleeps + 1
           /\ UNCHANGED <<rpc, attempt>>
      ELSE /\ attempt' = attempt + 1
           /\ rpc' = "call"
           /\ UNCHANGED sleeps
   /\ UNCHANGED <<retryInput, retryConfig, lastError, thrown, value, invocations, delays, firstTag, onlyRetryable>>

\* the sleep timer fires: attempt++ and back to the loop head
RetryWake ==
   /\ rpc = "sleep"
   /\ attempt' = attempt + 1
   /\ rpc' = "call"
   /\ UNCHANGED <<retryInput, retryConfig, lastError, thrown, value, invocations, sleeps, delays, firstTag, onlyRetryable>>

\* ------------------------------------------------------------------------
\* Stream processors: bytes, text and frames
\* ------------------------------------------------------------------------
MaxFrames == 3
\* the number of frames of the bodies the consumption steps are followed on
MaxLazyFrames == 2

\* One symbol of the wire is one byte, or a run of ASCII bytes the parsers
\* treat as a unit ("data:", "[DONE]", a JSON member).  "LF" is \n, "SP" a
\* space, "QT" the double quote, "BS" the backslash.  "E1" "E2" are the two
\* bytes of one two-byte UTF-8 character, decoded to "E"; "FFFD" is the
\* replacement character a decoder emits for a broken sequence.
TextChars == {"a", "x", "SP", "E", "FFFD"}

Whitespace == {"SP", "LF"}

\* TextDecoder.decode over the bytes of one read, `carry` the lead byte kept
\* from the previous read ("" if none): the characters decoded so far
RECURSIVE DecodeBytes(_, _, _)
DecodeBytes(bytes, carry, acc) ==
   IF bytes = <<>> THEN [chars |-> acc, carry |-> carry]
   ELSE LET b == Head(bytes) IN
        IF carry # ""
        THEN IF b = "E2"
             THEN DecodeBytes(Tail(bytes), "", Append(acc, "E"))
             ELSE DecodeBytes(bytes, "", Append(acc, "FFFD"))
        ELSE IF b = "E1" THEN DecodeBytes(Tail(bytes), "E1", acc)
        ELSE IF b = "E2" THEN DecodeBytes(Tail(bytes), "", Append(acc, "FFFD"))
        ELSE DecodeBytes(Tail(bytes), "", Append(acc, b))

\* this.decoder.decode(value, { stream: true }): an incomplete character at
\* the end of the read is kept for the next read
DecodeStreaming(bytes, carry) == DecodeBytes(bytes, carry, <<>>)

\* new TextDecoder().decode(value): a fresh decoder per read, flushed at the
\* end of the read
DecodeWhole(bytes) ==
   LET d == DecodeBytes(bytes, "", <<>>)
   IN  [chars |-> IF d.carry # "" THEN Append(d.chars, "FFFD") ELSE d.chars, carry |-> ""]

\* String.prototype.trim
RECURSIVE TrimLeft(_)
TrimLeft(s) == IF s # <<>> /\ Head(s) \in Whitespace THEN TrimLeft(Tail(s)) ELSE s

RECURSIVE TrimRight(_)
TrimRight(s) ==
   IF s # <<>> /\ s[Len(s)] \in Whitespace THEN TrimRight(SubSeq(s, 1, Len(s) - 1)) ELSE s

Trim(s) == TrimRight(TrimLeft(s))

\* buffer.split('\n'): the pieces between line feeds, at least one piece
RECURSIVE SplitLines(_, _, _)
SplitLines(s, cur, acc) ==
   IF s = <<>> THEN Append(acc, cur)
   ELSE IF Head(s) = "LF" THEN SplitLines(Tail(s), <<>>, Append(acc, cur))
   ELSE SplitLines(Tail(s), Append(cur, Head(s)), acc)

Split(s) == SplitLines(s, <<>>, <<>>)

AllButLast(s) == SubSeq(s, 1, Len(s) - 1)

\* the model identifier every frame of the stream carries
WireModel == "m1"

\* events of the unified stream
DeltaEvent(token) ==
   [type |-> "delta", token |-> token, completeOutput |-> <<>>, model |-> "", status |-> ""]
CompletedEvent(out, model, status) ==
   [type |-> "completed", token |-> <<>>, completeOutput |-> out, model |-> model, status |-> status]
DoneEvent(out, model, status) ==
   [type |-> "done", token |-> <<>>, completeOutput |-> out, model |-> model, status |-> status]

\* ---- GroqStreamProcessor ---------------------------------------------------
\* JSON.parse of a Groq chunk and the fields processChunk reads:
\* "{" text "}" is a chunk whose choices[0].delta.content is text,
\* "{" "stop" "}" one whose finish_reason is 'stop', "{" "meta" "}" one with
\* neither; anything else does not parse
GroqParse(str) ==
   LET s == Trim(str) IN
   IF Len(s) >= 2 /\ s[1] = "{" /\ s[Len(s)] = "}"
   THEN LET inner == SubSeq(s, 2, Len(s) - 1) IN
        IF inner = <<"stop">> THEN [ok |-> TRUE, content |-> <<>>, finish |-> TRUE]
        ELSE IF inner = <<"meta">> THEN [ok |-> TRUE, content |-> <<>>, finish |-> FALSE]
        ELSE IF \A k \in DOMAIN inner : inner[k] \in TextChars
        THEN [ok |-> TRUE, content |-> inner, finish |-> FALSE]
        ELSE [ok |-> FALSE, content |-> <<>>, finish |-> FALSE]
   ELSE [ok |-> FALSE, content |-> <<>>, finish |-> FALSE]

StartsWithData(s) == Len(s) >= 1 /\ s[1] = "data:"

\* processChunk(rawData) on processor state st: the events it returns (none
\* or one) and the state after
GroqProcessChunk(rawData, st) ==
   LET jsonStr == IF StartsWithData(rawData) /\ Len(rawData) >= 2 /\ rawData[2] = "SP"
                  THEN SubSeq(rawData, 3, Len(rawData))
                  ELSE rawData
       p == GroqParse(jsonStr)
       st1 == IF p.ok /\ st.model = "" THEN [st EXCEPT !.model = WireModel] ELSE st
   IN  IF Trim(rawData) = <<>> \/ Trim(rawData) = <<"[DONE]">> THEN [events |-> <<>>, st |-> st]
       ELSE IF jsonStr = <<"[DONE]">> THEN [events |-> <<>>, st |-> st]
       ELSE IF ~p.ok THEN [events |-> <<>>, st |-> st]
       ELSE IF p.content # <<>>
       THEN [events |-> <<DeltaEvent(p.content)>>,
             st |-> [st1 EXCEPT !.completeOutput = st1.completeOutput \o p.content]]
       ELSE IF p.finish
       THEN [events |-> <<CompletedEvent(st1.completeOutput, st1.model, "completed")>>, st |-> st1]
       ELSE [events |-> <<>>, st |-> st1]

\* the for loop over the complete lines of one read
RECURSIVE GroqLines(_, _, _)
GroqLines(lines, st, acc) ==
   IF lines = <<>> THEN [events |-> acc, st |-> st]
   ELSE LET trimmedLine == Trim(Head(lines))
            r == GroqProcessChunk(trimmedLine, st)
        IN  IF trimmedLine = <<>>
            THEN GroqLines(Tail(lines), st, acc)
            ELSE GroqLines(Tail(lines), r.st, acc \o r.events)

\* one iteration of the while loop of createAsyncGenerator with a read of `bytes`
GroqRead(bytes, st) ==
   LET lines == Split(st.buffer \o DecodeWhole(bytes).chars)
       r == GroqLines(AllButLast(lines), st, <<>>)
   IN  [events |-> r.events, st |-> [r.st EXCEPT !.buffer = lines[Len(lines)]]]

\* after the loop: the rest of the buffer
GroqEnd(st) ==
   IF Trim(st.buffer) # <<>>
   THEN GroqProcessChunk(Trim(st.buffer), st)
   ELSE [events |-> <<>>, st |-> st]

\* ---- OpenAIStreamProcessor -------------------------------------------------
\* JSON.parse of the data of an OpenAI line and the fields the generator reads:
\* "{" text "}" is a response.output_text.delta whose delta is text,
\* "{" "textdone" text "}" a response.output_text.done with that text,
\* "{" "completed" text "}" a response.completed whose output text is text,
\* "{" "meta" "}" an event of another type; anything else does not parse
OpenAIParse(str) ==
   LET s == Trim(str)
       bad == [ok |-> FALSE, type |-> "", text |-> <<>>]
   IN  IF Len(s) >= 2 /\ s[1] = "{" /\ s[Len(s)] = "}"
       THEN LET inner == SubSeq(s, 2, Len(s) - 1) IN
            IF inner = <<"meta">> THEN [ok |-> TRUE, type |-> "other", text |-> <<>>]
            ELSE IF inner # <<>> /\ Head(inner) \in {"textdone", "completed"}
                    /\ \A k \in 2..Len(inner) : inner[k] \in TextChars
            THEN [ok |-> TRUE, type |-> Head(inner), text |-> Tail(inner)]
            ELSE IF \A k \in DOMAIN inner : inner[k] \in TextChars
            THEN [ok |-> TRUE, type |-> "delta", text |-> inner]
            ELSE bad
       ELSE bad

\* the body of the for loop for one line: the events it yields
OpenAILine(line) ==
   LET dataStr == TrimLeft(Tail(line))
       p == OpenAIParse(dataStr)
   IN  IF Trim(line) = <<>> \/ ~StartsWithData(line) THEN <<>>
       ELSE IF ~p.ok THEN <<>>
       ELSE IF p.type = "delta" /\ p.text # <<>> THEN <<DeltaEvent(p.text)>>
       ELSE IF p.type = "textdone" /\ p.text # <<>> THEN <<DoneEvent(p.text, WireModel, "")>>
       ELSE IF p.type = "completed" THEN <<CompletedEvent(p.text, WireModel, "")>>
       ELSE <<>>

RECURSIVE OpenAILines(_, _)
OpenAILines(lines, acc) ==
   IF lines = <<>> THEN acc ELSE OpenAILines(Tail(lines), acc \o OpenAILine(Head(lines)))

\* one iteration of the while loop of createAsyncGenerator with a read of `bytes`
OpenAIRead(bytes, st) ==
   LET d == DecodeStreaming(bytes, st.carry)
       lines == Split(st.buffer \o d.chars)
   IN  [events |-> OpenAILines(AllButLast(lines), <<>>),
        st |-> [st EXCEPT !.buffer = lines[Len(lines)], !.carry = d.carry]]

\* after the loop: the rest of the buffer is left alone
OpenAIEnd(st) == [events |-> <<>>, st |-> st]

\* ---- GoogleStreamProcessor -------------------------------------------------
\* the for loop of extractCompleteJsonObjects from index i (startIndex 0: none)
RECURSIVE ScanObjects(_, _, _, _, _, _, _)
ScanObjects(buf, i, bracketCount, startIndex, inString, escapeNext, objects) ==
   IF i > Len(buf)
   THEN [objects |-> objects,
         remainingBuffer |-> IF startIndex # 0 THEN SubSeq(buf, startIndex, Len(buf)) ELSE <<>>]
   ELSE LET char == buf[i] IN
        IF escapeNext
        THEN ScanObjects(buf, i + 1, bracketCount, startIndex, inString, FALSE, objects)
        ELSE IF char = "BS" /\ inString
        THEN ScanObjects(buf, i + 1, bracketCount, startIndex, inString, TRUE, objects)
        ELSE IF char = "QT"
        THEN ScanObjects(buf, i + 1, bracketCount, startIndex, ~inString, FALSE, objects)
        ELSE IF inString
        THEN ScanObjects(buf, i + 1, bracketCount, startIndex, inString, FALSE, objects)
        ELSE IF char = "{"
        THEN ScanObjects(buf, i + 1, bracketCount + 1,
                         IF bracketCount = 0 THEN i ELSE startIndex, inString, FALSE, objects)
        ELSE IF char = "}"
        THEN IF bracketCount - 1 = 0 /\ startIndex # 0
             THEN ScanObjects(buf, i + 1, 0, 0, inString, FALSE,
                              Append(objects, SubSeq(buf, startIndex, i)))
             ELSE ScanObjects(buf, i + 1, bracketCount - 1, startIndex, inString, FALSE, objects)
        ELSE ScanObjects(buf, i + 1, bracketCount, startIndex, inString, FALSE, objects)

extractCompleteJsonObjects(buf) == ScanObjects(buf, 1, 0, 0, FALSE, FALSE, <<>>)

\* the characters of a JSON string literal body: \" and \\ are the escapes of
\* the alphabet, a raw quote or line feed ends the parse
RECURSIVE Unescape(_, _)
Unescape(s, acc) ==
   IF s = <<>> THEN [ok |-> TRUE, text |-> acc]
   ELSE IF Head(s) = "BS"
   THEN IF Len(s) >= 2 /\ s[2] \in {"QT", "BS"}
        THEN Unescape(Tail(Tail(s)), Append(acc, s[2]))
        ELSE [ok |-> FALSE, text |-> <<>>]
   ELSE IF Head(s) \in {"QT", "LF"} THEN [ok |-> FALSE, text |-> <<>>]
   ELSE Unescape(Tail(s), Append(acc, Head(s)))

\* JSON.parse of a Gemini chunk and the candidate part texts the generator
\* reads: "{" QT text QT "}" is a chunk with one candidate with one text part,
\* "{" "}" a chunk without candidates, "{" chunk "}" the same chunk one level
\* deeper; anything else does not parse
RECURSIVE GoogleParse(_)
GoogleParse(str) ==
   LET s == Trim(str)
       bad == [ok |-> FALSE, candidates |-> FALSE, text |-> <<>>]
   IN  IF Len(s) >= 2 /\ s[1] = "{" /\ s[Len(s)] = "}"
       THEN LET inner == Trim(SubSeq(s, 2, Len(s) - 1)) IN
            IF inner = <<>> THEN [ok |-> TRUE, candidates |-> FALSE, text |-> <<>>]
            ELSE IF Head(inner) = "{" THEN GoogleParse(inner)
            ELSE IF Len(inner) >= 2 /\ Head(inner) = "QT" /\ inner[Len(inner)] = "QT"
            THEN LET u == Unescape(SubSeq(inner, 2, Len(inner) - 1), <<>>)
                 IN  IF u.ok THEN [ok |-> TRUE, candidates |-> TRUE, text |-> u.text] ELSE bad
            ELSE bad
       ELSE bad

\* the try block for one JSON object: the events it yields and the state after
GoogleObject(jsonObject, st) ==
   LET chunk == GoogleParse(jsonObject) IN
   IF ~chunk.ok \/ ~chunk.candidates THEN [events |-> <<>>, st |-> st]
   ELSE IF chunk.text # <<>> /\ Trim(chunk.text) # <<>>
   THEN [events |-> <<DeltaEvent(chunk.text)>>,
         st |-> [st EXCEPT !.completeOutput = st.completeOutput \o chunk.text,
                           !.model = WireModel]]
   ELSE [events |-> <<>>, st |-> [st EXCEPT !.model = WireModel]]

RECURSIVE GoogleObjects(_, _, _)
GoogleObjects(objects, st, acc) ==
   IF objects = <<>> THEN [events |-> acc, st |-> st]
   ELSE LET r == GoogleObject(Head(objects), st)
        IN  GoogleObjects(Tail(objects), r.st, acc \o r.events)

\* one iteration of the while loop of createAsyncGenerator with a read of `bytes`
GoogleRead(bytes, st) ==
   LET d == DecodeStreaming(bytes, st.carry)
       x == extractCompleteJsonObjects(st.buffer \o d.chars)
       r == GoogleObjects(x.objects, st, <<>>)
   IN  [events |-> r.events,
        st |-> [r.st EXCEPT !.buffer = x.remainingBuffer, !.carry = d.carry]]

\* after the loop: the rest of the buffer, then the 'done' and the
\* 'completed' events; the final chunk updates neither model nor status
GoogleEnd(st) ==
   LET chunk == GoogleParse(st.buffer)
       last == IF Trim(st.buffer) # <<>> /\ chunk.ok /\ chunk.candidates
                  /\ chunk.text # <<>> /\ Trim(chunk.text) # <<>>
               THEN <<chunk.text>> ELSE <<>>
       out == IF last = <<>> THEN st.completeOutput ELSE st.completeOutput \o last[1]
   IN  [events |-> [k \in 1..Len(last) |-> DeltaEvent(last[k])]
                   \o <<DoneEvent(out, "", ""), CompletedEvent(out, st.model, "")>>,
        st |-> [st EXCEPT !.completeOutput = out]]

\* ---- the three processors behind one interface ----------------------------
Processors == {"groq", "openai", "google"}

ProcessorRead(p, bytes, st) ==
   CASE p = "groq" -> GroqRead(bytes, st)
     [] p = "openai" -> OpenAIRead(bytes, st)
     [] p = "google" -> GoogleRead(bytes, st)

ProcessorEnd(p, st) ==
   CASE p = "groq" -> GroqEnd(st)
     [] p = "openai" -> OpenAIEnd(st)
     [] p = "google" -> GoogleEnd(st)

\* the events of a whole createAsyncGenerator run over a body that arrives in
\* one read (no read at all for an empty body)
Normalize(p, bytes) ==
   LET st0 == [buffer |-> <<>>, carry |-> "", completeOutput |-> <<>>, model |-> ""]
       r1 == IF bytes = <<>> THEN [events |-> <<>>, st |-> st0] ELSE ProcessorRead(p, bytes, st0)
       r2 == ProcessorEnd(p, r1.st)
   IN  r1.events \o r2.events

\* ---- byte streams ----------------------------------------------------------
\* the frames a provider can put on the wire, as bytes
GroqFrames ==
   { <<"data:", "SP", "{", "a", "}", "LF">>,
     <<"data:", "SP", "{", "E1", "E2", "}", "LF">>,
     <<"data:", "SP", "{", "SP", "}", "LF">>,
     <<"data:", "SP", "{", "stop", "}", "LF">>,
     <<"data:", "SP", "[DONE]", "LF">>,
     <<"data:", "SP", "{", "a", "LF">>,
     <<"data:", "SP", "{", "stop", "}">> }

OpenAIFrames ==
   { <<"data:", "SP", "{", "a", "}", "LF">>,
     <<"data:", "SP", "{", "E1", "E2", "}", "LF">>,
     <<"data:", "SP", "{", "SP", "}", "LF">>,
     <<"data:", "SP", "{", "textdone", "a", "}", "LF">>,
     <<"data:", "SP", "{", "completed", "a", "}", "LF">>,
     <<"data:", "SP", "{", "a", "LF">>,
     <<"data:", "SP", "{", "completed", "a", "}">> }

GoogleFrames ==
   { <<"{", "{", "QT", "a", "QT", "}", "}">>,
     <<"{", "QT", "E1", "E2", "QT", "}">>,
     <<"{", "QT", "SP", "QT", "}">>,
     <<"{", "QT", "}", "BS", "QT", "QT", "}">>,
     <<",", "LF">>,
     <<"{", "a", "}">>,
     <<"{", "QT", "a">> }

Frames(p) ==
   CASE p = "groq" -> GroqFrames
     [] p = "openai" -> OpenAIFrames
     [] p = "google" -> GoogleFrames

RECURSIVE Concat(_)
Concat(frames) == IF frames = <<>> THEN <<>> ELSE Head(frames) \o Concat(Tail(frames))

\* the sequences of at most MaxFrames frames a response body can consist of
FrameSeqs(p) == UNION { [1..n -> Frames(p)] : n \in 0..MaxFrames }

\* the byte streams of at most MaxFrames frames
Wires(p) == { Concat(f) : f \in FrameSeqs(p) }

VARIABLES
   processor,       \* which stream processor: groq, openai, google
   frames,          \* the frames the provider wrote to the response body
   cutInChar,       \* some read ended between the two bytes of one character
   wire,            \* bytes of the response body not read yet
   buffer,          \* buffer of createAsyncGenerator
   carry,           \* lead byte held by this.decoder ("" if none)
   completeOutput,  \* completeOutput (Groq) or aggregatedText (Google)
   model,           \* model
   gpc,             \* the generator: new, reading, finishing, returned, threw, abandoned
   readerLocked,    \* the reader holds the lock of response.body
   releases,        \* number of reader.releaseLock() calls
   pendingYields,   \* events of the current read the consumer has not asked for yet
   emitted,         \* events delivered to the consumer, in order
   streamError,     \* message of the error the generator threw
   second,          \* a second generator of the same processor object: its frames,
                    \* cutInChar, wire, buffer, locals, gpc, pendingYields, emitted
   scan             \* one call of extractCompleteJsonObjects: its argument and result

streamVars == <<processor, frames, cutInChar, wire, buffer, carry, completeOutput, model, gpc,
                readerLocked, releases, pendingYields, emitted, streamError, second, scan>>

\* extractCompleteJsonObjects is not being called on its own
NoScan == [buffer |-> <<>>, called |-> FALSE, objects |-> <<>>, remainingBuffer |-> <<>>]

\* no second generator
NoSecond ==
   [frames |-> <<>>, cutInChar |-> FALSE, wire |-> <<>>, buffer |-> <<>>,
    completeOutput |-> <<>>, model |-> "", gpc |-> "none", pendingYields |-> <<>>,
    emitted |-> <<>>]

\* completeOutput and model are fields of the processor object in
\* GroqStreamProcessor and locals of createAsyncGenerator in the other two;
\* the decoder is a field of the Google and OpenAI processors
FieldsOnProcessor(p) == p = "groq"

\* the state the second generator works on: its own buffer, the processor's
\* decoder, and the processor's fields or its own locals
SecondState ==
   [buffer |-> second.buffer, carry |-> carry,
    completeOutput |-> IF FieldsOnProcessor(processor) THEN completeOutput ELSE second.completeOutput,
    model |-> IF FieldsOnProcessor(processor) THEN model ELSE second.model]

\* the state of the processor as the operators above take it
ProcessorState ==
   [buffer |-> buffer, carry |-> carry, completeOutput |-> completeOutput, model |-> model]

\* ------------------------------------------------------------------------
\* RunnerClient: configuration, Factory and provider adapters
\* ------------------------------------------------------------------------
MaxEndpoints == 2
MaxPriority == 2

SupportedProviders == {"openai", "google", "groq"}
ProviderCycle == <<"openai", "google", "groq">>

\* the classMap of Factory.create; client.constructor.name of the adapter
ClassName(provider) ==
   CASE provider = "openai" -> "OpenAIClient"
     [] provider = "google" -> "GeminiClient"
     [] provider = "groq" -> "GroqClient"

\* LLMConfig.retryConfig as supplied: omitted, or { maxRetries: 1, retryDelay: 1 }
RetryConfigInputs ==
   { [given |-> FALSE, maxRetries |-> Undef, retryDelay |-> Undef],
     [given |-> TRUE, maxRetries |-> 1, retryDelay |-> 1] }

PriorityInputs == {Undef} \cup (0..MaxPriority)

\* Config objects handed to RunnerClient.create: endpoint k of the list has
\* id k; the providers follow ProviderCycle from a chosen first provider
ConfigsOfLength(n) ==
   { [llmConfig |-> [k \in 1..n |->
                       [id |-> k,
                        provider |-> ProviderCycle[((k + first - 2) % 3) + 1],
                        priority |-> pr[k],
                        stream |-> st[k],
                        retryConfig |-> rc]],
      enableFallback |-> fb] :
        pr \in [1..n -> PriorityInputs], st \in [1..n -> BOOLEAN],
        first \in 1..3, rc \in RetryConfigInputs, fb \in BOOLEAN }

\* the normalize closure of setLLMConfigToDefault
normalize(llmConfig) ==
   [llmConfig EXCEPT
      !.priority = OrDefault(llmConfig.priority, 1),
      !.retryConfig = IF llmConfig.retryConfig.given
                      THEN llmConfig.retryConfig
                      ELSE [given |-> TRUE, maxRetries |-> 0, retryDelay |-> 1000]]

setLLMConfigToDefault(cfg) ==
   [cfg EXCEPT !.llmConfig = [k \in DOMAIN cfg.llmConfig |-> normalize(cfg.llmConfig[k])]]

\* the Partial<RetryConfig> each adapter constructor hands to new RetryHandler
AdapterRetryInput(llmConfig) ==
   [maxRetries |-> NullishDefault(llmConfig.retryConfig.maxRetries,
                                  IF llmConfig.provider = "google" THEN 3 ELSE 1),
    retryDelay |-> NullishDefault(llmConfig.retryConfig.retryDelay,
                                  IF llmConfig.provider = "google" THEN 1000 ELSE 0),
    exponentialBackoff |-> "undefined",
    retryableStatusCodes |-> [given |-> FALSE, codes |-> {}]]

\* an endpoint config without a provider property
MissingProvider == "(missing)"

\* String.prototype.toLowerCase on the provider names of the model
toLowerCase(name) == IF name = "OpenAI" THEN "openai" ELSE name

\* Factory.create throws: config.provider.toLowerCase() on a missing provider
\* (TypeError), or a provider name that is not supported; either error is
\* rethrown as "Failed to create client for provider ..."
FactoryThrows(llmConfig) ==
   \/ llmConfig.provider = MissingProvider
   \/ toLowerCase(llmConfig.provider) \notin SupportedProviders

\* new Factory(llmConfig).create(): the adapter with its own RetryHandler
FactoryCreate(llmConfig) ==
   [className |-> ClassName(toLowerCase(llmConfig.provider)),
    provider |-> llmConfig.provider,
    retryInput |-> AdapterRetryInput(llmConfig),
    retryHandler |-> RetryHandlerConstructor(AdapterRetryInput(llmConfig))]

\* Array.prototype.sort((a, b) => a[0].priority - b[0].priority): stable
RECURSIVE InsertByPriority_TiesFirst(_, _)
InsertByPriority_TiesFirst(x, s) ==
   IF s = <<>> THEN <<x>>
   ELSE IF x.cfg.priority <= Head(s).cfg.priority THEN <<x>> \o s
   ELSE <<Head(s)>> \o InsertByPriority_TiesFirst(x, Tail(s))

RECURSIVE InsertByPriority(_, _)
InsertByPriority(x, s) ==
   IF s = <<>> THEN <<x>>
   ELSE IF x.cfg.priority < Head(s).cfg.priority THEN <<x>> \o s
   ELSE <<Head(s)>> \o InsertByPriority(x, Tail(s))

RECURSIVE SortByPriority(_)
SortByPriority(s) ==
   IF s = <<>> THEN <<>>
   ELSE InsertByPriority(s[Len(s)], SortByPriority(SubSeq(s, 1, Len(s) - 1)))

\* loadLLMClients: one [llmConfig, client] pair per endpoint, pushed in list
\* order, then sorted by priority
loadLLMClients(cfg) ==
   SortByPriority([k \in DOMAIN cfg.llmConfig |->
                     [cfg |-> cfg.llmConfig[k], client |-> FactoryCreate(cfg.llmConfig[k])]])

\* the for loop of loadLLMClients over endpoint configs: the pairs pushed
\* before the first Factory.create that throws
RECURSIVE PushedClients(_)
PushedClients(llmConfigs) ==
   IF llmConfigs = <<>> \/ FactoryThrows(Head(llmConfigs)) THEN <<>>
   ELSE <<[cfg |-> Head(llmConfigs), client |-> FactoryCreate(Head(llmConfigs))]>>
        \o PushedClients(Tail(llmConfigs))

\* a tolerant loop: an endpoint whose Factory.create throws is passed over
LoadOutcome_SkipsFailed(cfg) ==
   [ok |-> TRUE,
    clients |-> SortByPriority(PushedClients(SelectSeq(cfg.llmConfig,
                                                       LAMBDA c : ~FactoryThrows(c))))]

\* loadLLMClients on any endpoint list: it returns with the sorted pairs when
\* no Factory.create throws, and throws (nothing catches in the loop) at the
\* first one that does, leaving the pairs pushed so far unsorted
LoadOutcome(cfg) ==
   IF \E k \in DOMAIN cfg.llmConfig : FactoryThrows(cfg.llmConfig[k])
   THEN [ok |-> FALSE, clients |-> PushedClients(cfg.llmConfig)]
   ELSE [ok |-> TRUE, clients |-> loadLLMClients(cfg)]

\* Content[] handed to run: a valid list, an empty list, a message with parts: []
Contents == {"valid", "empty", "noParts"}

\* MessageValidator.validateContents (openai, google) and
\* CommanMethods.validateContents (groq): the message of the Error thrown, "" if none
validateContents(provider, cnt) ==
   IF cnt = "empty" THEN "Contents array cannot be empty"
   ELSE IF cnt = "noParts" /\ provider # "groq" THEN "Content must have at least one part"
   ELSE ""

\* ------------------------------------------------------------------------
\* RunnerClient: values run() produces
\* ------------------------------------------------------------------------
NoFallback == [present |-> FALSE, isUsed |-> FALSE, reason |-> <<>>]

NoResult == [kind |-> "none", from |-> 0, output |-> <<>>, status |-> "", fallback |-> NoFallback]

\* the GenerateContentResponse an adapter builds from a valid body; its output
\* is the text generated by that endpoint
AdapterResponse(c) ==
   [kind |-> "response", from |-> c.cfg.id, output |-> <<c.cfg.id>>, status |-> "success",
    fallback |-> NoFallback]

\* a streaming candidate answered by a single response object
AdapterGenerator_SingleResponse(c) ==
   [kind |-> "response", from |-> c.cfg.id, output |-> <<>>, status |-> "", fallback |-> NoFallback]

\* the AsyncGenerator object generateContentStreamAsync returns
AdapterGenerator(c) ==
   [kind |-> "generator", from |-> c.cfg.id, output |-> <<>>, status |-> "", fallback |-> NoFallback]

\* the items joined last entry first
JoinReasons_Reversed(trace) ==
   [k \in 1..Len(trace) |-> <<trace[Len(trace) + 1 - k].client, trace[Len(trace) + 1 - k].error>>]

\* reasonForFallback.map(r => `${r.client}: ${r.error}`).join(', '):
\* the comma-separated items of the string, in order
JoinReasons(trace) == [k \in 1..Len(trace) |-> <<trace[k].client, trace[k].error>>]

\* a run that returns nothing after the loop
DegradedResponse_Nothing(trace) == NoResult

DegradedResponse(trace) ==
   [kind |-> "response", from |-> 0, output |-> <<>>, status |-> "fallback",
    fallback |-> [present |-> TRUE, isUsed |-> TRUE, reason |-> JoinReasons(trace)]]

NoRunError == [message |-> "", reasons |-> <<>>]
AggregateError(trace) == [message |-> "All LLM clients failed", reasons |-> JoinReasons(trace)]
NoClientsError == [message |-> "No LLM clients available to run the content.", reasons |-> <<>>]

VARIABLES
   cpc,                \* "new" before create, "ready" after
   userConfig,         \* the Config handed to create
   config,             \* RunnerClient.config (normalized)
   LLMClients,         \* RunnerClient.LLMClients
   runpc,              \* position in run: idle, calling, resolved, rejected
   content,            \* the argument of run
   idx,                \* position of the loop in LLMClients
   isFallbackUsed,     \* isFallbackUsed
   reasonForFallback,  \* reasonForFallback
   result,             \* what run resolved to
   runError,           \* what run rejected with
   attempted,          \* ids of the endpoints whose adapter method run called, in order
   ipc,                \* consumer of a returned generator: none, pending, requesting, streaming, failed
   iterError,          \* message of the error thrown to the consumer by next()
   signalAborted,      \* HttpClient.request: the timeout signal of the request in progress is aborted
   firedAt,            \* the invocation in flight when the timeout fired (0: none in flight)
   isStream,           \* HttpClient.request: the isStream argument of the request in progress
   bodyState,          \* the response body handed to the caller of a streaming request:
                       \* none, open, ended, destroyed
   lastResponse        \* the HTTP response the last invocation of operation received

runVars == <<cpc, userConfig, config, LLMClients, runpc, content, idx, isFallbackUsed,
             reasonForFallback, result, runError, attempted, ipc, iterError,
             signalAborted, firedAt, isStream, bodyState, lastResponse>>

\* the variables of one HttpClient.request
httpVars == <<signalAborted, firedAt, isStream, bodyState, lastResponse>>

\* the variables of RunnerClient.run and of the consumer of its generator
runnerVars == <<cpc, userConfig, config, LLMClients, runpc, content, idx, isFallbackUsed,
                reasonForFallback, result, runError, attempted, ipc, iterError>>

\* after the loop, throwing whether or not fallback is enabled
Finish_AlwaysThrows(k, trace, used, att, fb) ==
   [runpc |-> "rejected", idx |-> k, trace |-> trace, used |-> used,
    result |-> NoResult, runError |-> AggregateError(trace), attempted |-> att]

\* lines 101-115 of run: after the loop
Finish(k, trace, used, att, fb) ==
   IF used /\ fb
   THEN [runpc |-> "resolved", idx |-> k, trace |-> trace, used |-> used,
         result |-> DegradedResponse(trace), runError |-> NoRunError, attempted |-> att]
   ELSE [runpc |-> "rejected", idx |-> k, trace |-> trace, used |-> used,
         result |-> NoResult, runError |-> AggregateError(trace), attempted |-> att]

\* the catch block and the fallback test of the loop for candidate k
\* failing with `message`: the next position of the loop
AfterFailure_AlwaysContinue(k, fb) == k + 1

AfterFailure(k, fb) == IF fb THEN k + 1 ELSE Len(LLMClients) + 1

\* a loop that lets a validation error end the run, whatever enableFallback
\* says, while it falls back on every other error
RECURSIVE Advance_StopsOnValidation(_, _, _, _, _, _)
Advance_StopsOnValidation(k, trace, used, att, cnt, clients) ==
   IF k > Len(clients)
   THEN Finish(k, trace, used, att, config.enableFallback)
   ELSE LET c == clients[k]
            att2 == Append(att, c.cfg.id)
            v == validateContents(c.client.provider, cnt)
        IN  IF c.cfg.stream
            THEN [runpc |-> "resolved", idx |-> k, trace |-> trace, used |-> used,
                  result |-> AdapterGenerator(c), runError |-> NoRunError, attempted |-> att2]
            ELSE IF v # ""
            THEN Finish(Len(clients) + 1,
                        Append(trace, [client |-> c.client.className, error |-> v]),
                        TRUE, att2, FALSE)
            ELSE [runpc |-> "calling", idx |-> k, trace |-> trace, used |-> used,
                  result |-> NoResult, runError |-> NoRunError, attempted |-> att2]

\* the for loop of run from candidate k up to its next await of an HTTP
\* request (or its end): a streaming candidate yields its generator at once,
\* a candidate whose validation throws is recorded and the loop goes on
RECURSIVE Advance(_, _, _, _, _, _)
Advance(k, trace, used, att, cnt, clients) ==
   IF k > Len(clients)
   THEN Finish(k, trace, used, att, config.enableFallback)
   ELSE LET c == clients[k]
            att2 == Append(att, c.cfg.id)
            v == validateContents(c.client.provider, cnt)
        IN  IF c.cfg.stream
            THEN [runpc |-> "resolved", idx |-> k, trace |-> trace, used |-> used,
                  result |-> AdapterGenerator(c), runError |-> NoRunError, attempted |-> att2]
            ELSE IF v # ""
            THEN Advance(AfterFailure(k, config.enableFallback),
                         Append(trace, [client |-> c.client.className, error |-> v]),
                         TRUE, att2, cnt, clients)
            ELSE [runpc |-> "calling", idx |-> k, trace |-> trace, used |-> used,
                  result |-> NoResult, runError |-> NoRunError, attempted |-> att2]

\* assign the run variables from a record computed by Advance / Finish
SetRun(r) ==
   /\ runpc' = r.runpc
   /\ idx' = r.idx
   /\ reasonForFallback' = r.trace
   /\ isFallbackUsed' = r.used
   /\ result' = r.result
   /\ runError' = r.runError
   /\ attempted' = r.attempted
   /\ ipc' = IF r.result.kind = "generator" THEN "pending" ELSE "none"
   /\ iterError' = ""

\* ---- a second call of run on the same client ------------------------------
VARIABLES
   other               \* the locals of a second run() call on the client: its position
                       \* (pc), content, loop index, isFallbackUsed (used),
                       \* reasonForFallback (trace), and what it resolved to or
                       \* rejected with

\* no second call of run
NoOther ==
   [pc |-> "idle", content |-> "valid", idx |-> 0, used |-> FALSE, trace |-> <<>>,
    result |-> NoResult, runError |-> NoRunError, attempted |-> <<>>]

\* the locals of the second call from a record computed by Advance / Finish
OtherLocals(r, cnt) ==
   [pc |-> r.runpc, content |-> cnt, idx |-> r.idx, used |-> r.used, trace |-> r.trace,
    result |-> r.result, runError |-> r.runError, attempted |-> r.attempted]

\* ---- HttpClient: responses and their classification -----------------------
StatusCodes == {200, 400, 404, 429, 500, 502, 503, 504}

\* bodies of an error response: JSON {error: {code: <the status number>, ...}}
\* (Gemini), JSON {error: {code: <a string or null>, ...}} (OpenAI, Groq),
\* JSON without an error member, text that is not JSON
ErrorBodies == {"numericCode", "stringCode", "noError", "notJson"}

\* error.code of a body whose code member is not a number
StringCode == -2

NoResponse == [statusCode |-> 0, body |-> "none"]

Responses ==
   {[statusCode |-> 200, body |-> b] : b \in {"valid", "malformed"}}
   \cup {[statusCode |-> c, body |-> b] : c \in StatusCodes \ {200}, b \in ErrorBodies}

getStatusText(statusCode) ==
   CASE statusCode = 400 -> "BAD_REQUEST"
     [] statusCode = 401 -> "UNAUTHORIZED"
     [] statusCode = 403 -> "FORBIDDEN"
     [] statusCode = 404 -> "NOT_FOUND"
     [] statusCode = 429 -> "RATE_LIMITED"
     [] statusCode = 500 -> "INTERNAL_SERVER_ERROR"
     [] statusCode = 502 -> "BAD_GATEWAY"
     [] statusCode = 503 -> "SERVICE_UNAVAILABLE"
     [] statusCode = 504 -> "GATEWAY_TIMEOUT"
     [] OTHER -> "UNKNOWN_ERROR"

isRetryableStatusCode(statusCode) == statusCode \in {429, 500, 502, 503, 504}

\* handleErrorResponse: the error it throws; isRetryableStatusCode is applied
\* to the code member of the parsed body, the status code being used only
\* when the body is not JSON
handleErrorResponse(statusCode, body) ==
   IF body = "noError"
   THEN MkError("Error", "TypeError", "cannot destructure", "", Undef)
   ELSE LET code == IF body = "stringCode" THEN StringCode ELSE statusCode
            message == IF body = "notJson" THEN getStatusText(statusCode) ELSE "http error"
        IN  IF isRetryableStatusCode(code)
            THEN RetryableErr(message, code, getStatusText(statusCode))
            ELSE NonRetryableErr(message, code, getStatusText(statusCode))

\* operation: what one invocation does with the response it received
operation(r) ==
   IF r.statusCode >= 400
   THEN [ok |-> FALSE, err |-> handleErrorResponse(r.statusCode, r.body), body |-> "none"]
   ELSE [ok |-> TRUE, err |-> NoError, body |-> r.body]

\* request() of undici rejects without a response (connection failure)
ConnectionFailure == [ok |-> FALSE, err |-> MkError("Error", "TypeError", "fetch failed", "", Undef), body |-> "none"]

\* createTimeoutSignal: a new AbortController and its timer, made once by
\* request() and put in the options every attempt of the operation reuses
createTimeoutSignal ==
   /\ signalAborted' = FALSE
   /\ firedAt' = 0

\* no request in progress: the signal of a finished request is unreachable
SignalDropped ==
   /\ signalAborted' = FALSE
   /\ firedAt' = 0
   /\ isStream' = FALSE
   /\ bodyState' = "none"
   /\ lastResponse' = NoResponse

\* httpClient.request -> retryHandler.executeWithRetry of adapter `client`
RetryBegin(client, stream) ==
   /\ retryInput' = client.retryInput
   /\ retryConfig' = client.retryHandler
   /\ isStream' = stream
   /\ bodyState' = "none"
   /\ lastResponse' = NoResponse
   /\ createTimeoutSignal
   /\ RetryEnter

\* the retry handler of the candidate the loop stopped at, if it stopped at one
SetRetry(r) ==
   IF r.runpc = "calling"
   THEN RetryBegin(LLMClients[r.idx].client, FALSE)
   ELSE RetryIdle /\ SignalDropped /\ UNCHANGED <<retryInput, retryConfig>>

\* what an HTTP attempt of an adapter can do
RunOutcomes ==
   { [ok |-> TRUE, err |-> NoError, body |-> "valid"],
     [ok |-> TRUE, err |-> NoError, body |-> "malformed"],
     [ok |-> FALSE, err |-> RetryableErr("rate limited", 429, "RATE_LIMITED"), body |-> "none"],
     [ok |-> FALSE, err |-> NonRetryableErr("unauthorized", 401, "UNAUTHORIZED"), body |-> "none"] }

\* undici's request() with an aborted signal: it rejects with an AbortError,
\* at once when the signal is already aborted at the call
AbortedOutcome == [ok |-> FALSE, err |-> MkError("Error", "AbortError", "aborted", "", Undef), body |-> "none"]

\* ---- actions of RunnerClient ---------------------------------------------

\* RunnerClient.create(config): constructor (setLLMConfigToDefault) and loadLLMClients
Create ==
   /\ cpc = "new"
   /\ \E n \in 0..MaxEndpoints : \E cfg \in ConfigsOfLength(n) :
         /\ userConfig' = cfg
         /\ config' = setLLMConfigToDefault(cfg)
         /\ LLMClients' = loadLLMClients(setLLMConfigToDefault(cfg))
   /\ cpc' = "ready"
   /\ UNCHANGED <<runpc, content, idx, isFallbackUsed, reasonForFallback, result, runError,
                  attempted, ipc, iterError>>
   /\ UNCHANGED httpVars
   /\ UNCHANGED retryVars
   /\ UNCHANGED streamVars
   /\ UNCHANGED other

\* a run that moves the first candidate to the end of the list once it has
\* chosen the candidates to attempt
Run_Rotates ==
   /\ cpc = "ready"
   /\ runpc \in {"idle", "resolved", "rejected"}
   /\ ipc # "requesting"
   /\ \E cnt \in Contents :
         /\ content' = cnt
         /\ IF Len(LLMClients) = 0
            THEN /\ SetRun([runpc |-> "rejected", idx |-> 0, trace |-> <<>>, used |-> FALSE,
                            result |-> NoResult, runError |-> NoClientsError, attempted |-> <<>>])
                 /\ RetryIdle
                 /\ SignalDropped
                 /\ UNCHANGED <<retryInput, retryConfig>>
            ELSE LET r == Advance(1, <<>>, FALSE, <<>>, cnt, LLMClients)
                 IN  SetRun(r) /\ SetRetry(r)
   /\ LLMClients' = IF LLMClients = <<>> THEN LLMClients
                   ELSE Append(Tail(LLMClients), Head(LLMClients))
   /\ UNCHANGED <<cpc, userConfig, config>>
   /\ UNCHANGED streamVars
   /\ UNCHANGED other

\* run(content) is called: up to the first await of an HTTP request
Run ==
   /\ cpc = "ready"
   /\ runpc \in {"idle", "resolved", "rejected"}
   /\ ipc # "requesting"
   /\ \E cnt \in Contents :
         /\ content' = cnt
         /\ IF Len(LLMClients) = 0
            THEN /\ SetRun([runpc |-> "rejected", idx |-> 0, trace |-> <<>>, used |-> FALSE,
                            result |-> NoResult, runError |-> NoClientsError, attempted |-> <<>>])
                 /\ RetryIdle
                 /\ SignalDropped
                 /\ UNCHANGED <<retryInput, retryConfig>>
            ELSE LET r == Advance(1, <<>>, FALSE, <<>>, cnt, LLMClients)
                 IN  SetRun(r) /\ SetRetry(r)
   /\ UNCHANGED <<cpc, userConfig, config, LLMClients>>
   /\ UNCHANGED streamVars
   /\ UNCHANGED other

\* an HTTP attempt of the adapter in progress settles
HttpAttemptSettles ==
   /\ runpc = "calling" \/ ipc = "requesting"
   /\ \E o \in (IF signalAborted THEN {AbortedOutcome} ELSE RunOutcomes) : RetryInvoke(o)
   /\ UNCHANGED runVars
   /\ UNCHANGED streamVars
   /\ UNCHANGED other

\* the backoff sleep of the adapter in progress is over
BackoffElapses ==
   /\ runpc = "calling" \/ ipc = "requesting"
   /\ RetryWake
   /\ UNCHANGED runVars
   /\ UNCHANGED streamVars
   /\ UNCHANGED other

\* the awaited generateContent resolves, the response is kept and the loop
\* goes on with the next candidate
CandidateReturns_KeepGoing ==
   /\ runpc = "calling"
   /\ rpc = "returned"
   /\ value = "valid"
   /\ LET r == Advance(idx + 1, reasonForFallback, isFallbackUsed, attempted, content, LLMClients)
      IN  /\ SetRun(IF r.runpc = "calling" THEN r
                    ELSE [r EXCEPT !.runpc = "resolved", !.idx = idx, !.runError = NoRunError,
                                   !.result = AdapterResponse(LLMClients[idx])])
          /\ SetRetry(r)
   /\ UNCHANGED <<cpc, userConfig, config, LLMClients, content>>
   /\ UNCHANGED streamVars
   /\ UNCHANGED other

\* the awaited generateContent resolves: run returns the response (line 90)
CandidateReturns ==
   /\ runpc = "calling"
   /\ rpc = "returned"
   /\ value = "valid"
   /\ SetRun([runpc |-> "resolved", idx |-> idx, trace |-> reasonForFallback,
              used |-> isFallbackUsed, result |-> AdapterResponse(LLMClients[idx]),
              runError |-> NoRunError, attempted |-> attempted])
   /\ RetryIdle
   /\ SignalDropped
   /\ UNCHANGED <<retryInput, retryConfig>>
   /\ UNCHANGED <<cpc, userConfig, config, LLMClients, content>>
   /\ UNCHANGED streamVars
   /\ UNCHANGED other

\* a loop that moves on to the next candidate while the backoff sleep of the
\* current one is still pending
CandidateFails_DuringBackoff ==
   /\ runpc = "calling"
   /\ rpc \in {"thrown", "sleep"} \/ (rpc = "returned" /\ value = "malformed")
   /\ LET message == IF rpc = "thrown" THEN thrown.message
                     ELSE IF rpc = "sleep" THEN lastError.message
                     ELSE "invalid response body"
          trace == Append(reasonForFallback,
                          [client |-> LLMClients[idx].client.className, error |-> message])
          r == Advance(AfterFailure(idx, config.enableFallback), trace, TRUE, attempted,
                       content, LLMClients)
      IN  SetRun(r) /\ SetRetry(r)
   /\ UNCHANGED <<cpc, userConfig, config, LLMClients, content>>
   /\ UNCHANGED streamVars
   /\ UNCHANGED other

\* the awaited generateContent rejects (the retry handler threw, or the
\* adapter threw on a body without the expected fields): catch block, then
\* the rest of the loop
CandidateFails ==
   /\ runpc = "calling"
   /\ rpc = "thrown" \/ (rpc = "returned" /\ value = "malformed")
   /\ LET message == IF rpc = "thrown" THEN thrown.message ELSE "invalid response body"
          trace == Append(reasonForFallback,
                          [client |-> LLMClients[idx].client.className, error |-> message])
          r == Advance(AfterFailure(idx, config.enableFallback), trace, TRUE, attempted,
                       content, LLMClients)
      IN  SetRun(r) /\ SetRetry(r)
   /\ UNCHANGED <<cpc, userConfig, config, LLMClients, content>>
   /\ UNCHANGED streamVars
   /\ UNCHANGED other

\* ---- a second run(content) on the same client, interleaved with the first --
\* what an awaited generateContent of the second call rejects with, the retry
\* handler having given up, or the adapter having thrown on the body
OtherFailures ==
   {o.err.message : o \in {x \in RunOutcomes : ~x.ok}} \cup {"invalid response body"}

\* run(content) is called a second time, while the first call is at any
\* of its positions: its own isFallbackUsed and reasonForFallback (lines 83-84)
OtherRun ==
   /\ cpc = "ready"
   /\ other.pc \in {"idle", "resolved", "rejected"}
   /\ \E cnt \in Contents :
         other' = IF Len(LLMClients) = 0
                  THEN [NoOther EXCEPT !.pc = "rejected", !.content = cnt,
                                       !.runError = NoClientsError]
                  ELSE OtherLocals(Advance(1, <<>>, FALSE, <<>>, cnt, LLMClients), cnt)
   /\ UNCHANGED <<retryVars, runVars, streamVars>>

\* the awaited generateContent of the second call resolves (line 90)
OtherCandidateReturns ==
   /\ other.pc = "calling"
   /\ other' = [other EXCEPT !.pc = "resolved",
                             !.result = AdapterResponse(LLMClients[other.idx])]
   /\ UNCHANGED <<retryVars, runVars, streamVars>>

\* a client that keeps the trace in a field: the catch block of the second
\* call pushes its entry onto the list the first call reports as well
OtherCandidateFails_SharedTrace ==
   /\ other.pc = "calling"
   /\ \E message \in OtherFailures :
         LET entry == [client |-> LLMClients[other.idx].client.className, error |-> message]
             trace == Append(other.trace, entry)
             r == Advance(AfterFailure(other.idx, config.enableFallback), trace, TRUE,
                          other.attempted, other.content, LLMClients)
         IN  /\ other' = OtherLocals(r, other.content)
             /\ reasonForFallback' = Append(reasonForFallback, entry)
   /\ UNCHANGED <<cpc, userConfig, config, LLMClients, runpc, content, idx, isFallbackUsed,
                  result, runError, attempted, ipc, iterError>>
   /\ UNCHANGED <<httpVars, retryVars, streamVars>>

\* the awaited generateContent of the second call rejects: catch block (lines
\* 91-97) on the second call's own reasonForFallback, then the rest of the loop
OtherCandidateFails ==
   /\ other.pc = "calling"
   /\ \E message \in OtherFailures :
         LET entry == [client |-> LLMClients[other.idx].client.className, error |-> message]
             trace == Append(other.trace, entry)
             r == Advance(AfterFailure(other.idx, config.enableFallback), trace, TRUE,
                          other.attempted, other.content, LLMClients)
         IN  other' = OtherLocals(r, other.content)
   /\ UNCHANGED <<retryVars, runVars, streamVars>>

\* the consumer calls next() on the returned generator for the first time:
\* the body of generateContentStreamAsync starts (validation, streamRequest)
IterStart ==
   /\ runpc = "resolved"
   /\ ipc = "pending"
   /\ LET c == LLMClients[idx]
          v == validateContents(c.client.provider, content)
      IN  IF v # ""
          THEN /\ ipc' = "failed"
               /\ iterError' = v
               /\ UNCHANGED retryVars
               /\ UNCHANGED httpVars
          ELSE /\ ipc' = "requesting"
               /\ iterError' = ""
               /\ RetryBegin(c.client, TRUE)
   /\ UNCHANGED <<cpc, userConfig, config, LLMClients, runpc, content, idx, isFallbackUsed,
                  reasonForFallback, result, runError, attempted>>
   /\ UNCHANGED streamVars
   /\ UNCHANGED other

\* streamRequest rejects inside the generator: next() rejects
IterRequestFails ==
   /\ ipc = "requesting"
   /\ rpc = "thrown"
   /\ ipc' = "failed"
   /\ iterError' = thrown.message
   /\ RetryIdle
   /\ SignalDropped
   /\ UNCHANGED <<retryInput, retryConfig>>
   /\ UNCHANGED <<cpc, userConfig, config, LLMClients, runpc, content, idx, isFallbackUsed,
                  reasonForFallback, result, runError, attempted>>
   /\ UNCHANGED streamVars
   /\ UNCHANGED other

\* streamRequest resolves with the byte stream: the stream processor takes over
IterStreams ==
   /\ ipc = "requesting"
   /\ rpc = "returned"
   /\ ipc' = "streaming"
   /\ RetryIdle
   /\ SignalDropped
   /\ UNCHANGED <<retryInput, retryConfig>>
   /\ UNCHANGED <<cpc, userConfig, config, LLMClients, runpc, content, idx, isFallbackUsed,
                  reasonForFallback, result, runError, attempted, iterError>>
   /\ UNCHANGED streamVars
   /\ UNCHANGED other

\* ------------------------------------------------------------------------
\* The specifications
\* ------------------------------------------------------------------------
vars == <<retryVars, runVars, streamVars, other>>

\* no RunnerClient
RunAbsent ==
   /\ cpc = "new"
   /\ userConfig = [llmConfig |-> <<>>, enableFallback |-> FALSE]
   /\ config = [llmConfig |-> <<>>, enableFallback |-> FALSE]
   /\ LLMClients = <<>>
   /\ runpc = "idle"
   /\ content = "valid"
   /\ idx = 0
   /\ isFallbackUsed = FALSE
   /\ reasonForFallback = <<>>
   /\ result = NoResult
   /\ runError = NoRunError
   /\ attempted = <<>>
   /\ ipc = "none"
   /\ iterError = ""
   /\ signalAborted = FALSE
   /\ firedAt = 0
   /\ isStream = FALSE
   /\ bodyState = "none"
   /\ lastResponse = NoResponse
   /\ other = NoOther

\* a RetryHandler built from input c, executeWithRetry not called yet
RetryConstructed(c) ==
   /\ retryInput = c
   /\ retryConfig = RetryHandlerConstructor(c)
   /\ rpc = "idle"
   /\ attempt = 0
   /\ lastError = NoError
   /\ thrown = NoError
   /\ value = "none"
   /\ invocations = 0
   /\ sleeps = 0
   /\ delays = <<>>
   /\ firstTag = "none"
   /\ onlyRetryable = TRUE

\* no generator of any processor has been created
GeneratorsAbsent ==
   /\ processor = "groq"
   /\ frames = <<>>
   /\ cutInChar = FALSE
   /\ wire = <<>>
   /\ buffer = <<>>
   /\ carry = ""
   /\ completeOutput = <<>>
   /\ model = ""
   /\ gpc = "new"
   /\ readerLocked = FALSE
   /\ releases = 0
   /\ pendingYields = <<>>
   /\ emitted = <<>>
   /\ streamError = ""
   /\ second = NoSecond

\* no stream is open on any processor
StreamAbsent ==
   /\ GeneratorsAbsent
   /\ scan = NoScan

\* ---- SpecRun: RunnerClient.create, run, and the consumer of its result ----
InitRun ==
   /\ RunAbsent
   /\ StreamAbsent
   /\ RetryConstructed([maxRetries |-> Undef, retryDelay |-> Undef,
                        exponentialBackoff |-> "undefined",
                        retryableStatusCodes |-> [given |-> FALSE, codes |-> {}]])

NextRun ==
   \/ Create
   \/ Run
   \/ HttpAttemptSettles
   \/ BackoffElapses
   \/ CandidateReturns
   \/ CandidateFails
   \/ IterStart
   \/ IterRequestFails
   \/ IterStreams

SpecRun == InitRun /\ [][NextRun]_vars

\* ---- SpecRunLive: run() on a created client, every adapter call terminating --
\* configs of n endpoints that leave priority unset (the candidates are
\* tried in list order)
LiveConfigsOfLength(n) ==
   { c \in ConfigsOfLength(n) :
       \A k \in DOMAIN c.llmConfig : c.llmConfig[k].priority = Undef }

\* the state RunnerClient.create(cfg) leaves, run not called yet
InitRunLive ==
   /\ StreamAbsent
   /\ RetryConstructed([maxRetries |-> Undef, retryDelay |-> Undef,
                        exponentialBackoff |-> "undefined",
                        retryableStatusCodes |-> [given |-> FALSE, codes |-> {}]])
   /\ \E n \in 1..MaxEndpoints : \E cfg \in LiveConfigsOfLength(n) :
         /\ userConfig = cfg
         /\ config = setLLMConfigToDefault(cfg)
         /\ LLMClients = loadLLMClients(setLLMConfigToDefault(cfg))
   /\ cpc = "ready"
   /\ runpc = "idle"
   /\ content = "valid"
   /\ idx = 0
   /\ isFallbackUsed = FALSE
   /\ reasonForFallback = <<>>
   /\ result = NoResult
   /\ runError = NoRunError
   /\ attempted = <<>>
   /\ ipc = "none"
   /\ iterError = ""
   /\ signalAborted = FALSE
   /\ firedAt = 0
   /\ isStream = FALSE
   /\ bodyState = "none"
   /\ lastResponse = NoResponse
   /\ other = NoOther

NextRunLive ==
   \/ Run
   \/ HttpAttemptSettles
   \/ BackoffElapses
   \/ CandidateReturns
   \/ CandidateFails

\* an awaited HTTP attempt settles, a backoff timer fires, and the
\* continuation of run after a settled await is run by the event loop
SpecRunLive ==
   /\ InitRunLive
   /\ [][NextRunLive]_vars
   /\ WF_vars(HttpAttemptSettles)
   /\ WF_vars(BackoffElapses)
   /\ WF_vars(CandidateReturns)
   /\ WF_vars(CandidateFails)

\* ---- SpecTwoRuns: two calls of run on one client, interleaved ----------------
\* a client of two endpoints with a retry policy given, run not called yet
InitTwoRuns ==
   /\ InitRunLive
   /\ Len(userConfig.llmConfig) = 2
   /\ \A k \in DOMAIN userConfig.llmConfig : userConfig.llmConfig[k].retryConfig.given

NextTwoRuns ==
   \/ Run
   \/ HttpAttemptSettles
   \/ BackoffElapses
   \/ CandidateReturns
   \/ CandidateFails
   \/ OtherRun
   \/ OtherCandidateReturns
   \/ OtherCandidateFails

SpecTwoRuns == InitTwoRuns /\ [][NextTwoRuns]_vars

\* ---- SpecRetry: one RetryHandler, any operation ----------------------------
InitRetry ==
   /\ RunAbsent
   /\ StreamAbsent
   /\ \E c \in RetryInputs : RetryConstructed(c)

executeWithRetry ==
   /\ rpc \in {"idle", "returned", "thrown"}
   /\ RetryEnter
   /\ UNCHANGED <<retryInput, retryConfig>>
   /\ UNCHANGED runVars
   /\ UNCHANGED streamVars
   /\ UNCHANGED other

OperationSettles ==
   /\ \E o \in Outcomes : RetryInvoke(o)
   /\ UNCHANGED runVars
   /\ UNCHANGED streamVars
   /\ UNCHANGED other

SleepElapses ==
   /\ RetryWake
   /\ UNCHANGED runVars
   /\ UNCHANGED streamVars
   /\ UNCHANGED other

\* updateConfig between two executeWithRetry calls; the finished call is forgotten
updateConfig ==
   /\ rpc \in {"idle", "returned", "thrown"}
   /\ \E n \in 0..MaxRetries :
         /\ retryInput' = [retryInput EXCEPT !.maxRetries = n]
         /\ retryConfig' = [retryConfig EXCEPT !.maxRetries = n]
   /\ RetryIdle
   /\ UNCHANGED runVars
   /\ UNCHANGED streamVars
   /\ UNCHANGED other

NextRetry == executeWithRetry \/ OperationSettles \/ SleepElapses \/ updateConfig

SpecRetry == InitRetry /\ [][NextRetry]_vars

\* ---- SpecStream: one stream processor's createAsyncGenerator and its consumer ----
InitStream ==
   /\ RunAbsent
   /\ RetryConstructed([maxRetries |-> Undef, retryDelay |-> Undef,
                        exponentialBackoff |-> "undefined",
                        retryableStatusCodes |-> [given |-> FALSE, codes |-> {}]])
   /\ processor \in Processors
   /\ frames \in FrameSeqs(processor)
   /\ cutInChar = FALSE
   /\ wire = Concat(frames)
   /\ buffer = <<>>
   /\ carry = ""
   /\ completeOutput = <<>>
   /\ model = ""
   /\ gpc = "new"
   /\ readerLocked = FALSE
   /\ releases = 0
   /\ pendingYields = <<>>
   /\ emitted = <<>>
   /\ streamError = ""
   /\ second = NoSecond
   /\ scan = NoScan

\* assign the processor state from a record computed by ProcessorRead / ProcessorEnd
SetProcessor(st) ==
   /\ buffer' = st.buffer
   /\ carry' = st.carry
   /\ completeOutput' = st.completeOutput
   /\ model' = st.model

\* finally { reader.releaseLock() }
ReleaseLock ==
   /\ readerLocked' = FALSE
   /\ releases' = releases + 1

\* the consumer's first next(): the body up to the first reader.read()
StreamStart ==
   /\ gpc = "new"
   /\ gpc' = "reading"
   /\ readerLocked' = TRUE
   /\ buffer' = <<>>
   /\ completeOutput' = <<>>
   /\ model' = ""
   /\ UNCHANGED <<processor, frames, cutInChar, wire, carry, releases, pendingYields, emitted, streamError>>
   /\ UNCHANGED <<retryVars, runVars>>
   /\ UNCHANGED scan
   /\ UNCHANGED other
   /\ UNCHANGED second

\* a generator that reads ahead: it issues the next read while events decoded
\* from earlier reads are still waiting for the consumer
StreamRead_Eager ==
   /\ gpc = "reading"
   /\ wire # <<>>
   /\ \E n \in 1..Len(wire) :
         \E r \in {ProcessorRead(processor, SubSeq(wire, 1, n), ProcessorState)} :
            /\ wire' = SubSeq(wire, n + 1, Len(wire))
            /\ cutInChar' = (cutInChar \/ wire[n] = "E1")
            /\ SetProcessor(r.st)
            /\ pendingYields' = pendingYields \o r.events
   /\ UNCHANGED <<processor, frames, gpc, readerLocked, releases, emitted, streamError>>
   /\ UNCHANGED <<retryVars, runVars>>
   /\ UNCHANGED scan
   /\ UNCHANGED other
   /\ UNCHANGED second

\* reader.read() resolves with the next bytes of the body, however many the
\* transport hands over, and the loop body runs on them
StreamRead ==
   /\ gpc = "reading"
   /\ pendingYields = <<>>
   /\ wire # <<>>
   /\ \E n \in 1..Len(wire) :
         \E r \in {ProcessorRead(processor, SubSeq(wire, 1, n), ProcessorState)} :
            /\ wire' = SubSeq(wire, n + 1, Len(wire))
            /\ cutInChar' = (cutInChar \/ wire[n] = "E1")
            /\ SetProcessor(r.st)
            /\ pendingYields' = r.events
   /\ UNCHANGED <<processor, frames, gpc, readerLocked, releases, emitted, streamError>>
   /\ UNCHANGED <<retryVars, runVars>>
   /\ UNCHANGED scan
   /\ UNCHANGED other
   /\ UNCHANGED second

\* reader.read() resolves with done: the code after the loop
StreamEnds ==
   /\ gpc = "reading"
   /\ pendingYields = <<>>
   /\ wire = <<>>
   /\ \E r \in {ProcessorEnd(processor, ProcessorState)} :
         /\ SetProcessor(r.st)
         /\ pendingYields' = r.events
         /\ IF r.events = <<>>
            THEN gpc' = "returned" /\ ReleaseLock
            ELSE gpc' = "finishing" /\ UNCHANGED <<readerLocked, releases>>
   /\ UNCHANGED <<processor, frames, cutInChar, wire, emitted, streamError>>
   /\ UNCHANGED <<retryVars, runVars>>
   /\ UNCHANGED scan
   /\ UNCHANGED other
   /\ UNCHANGED second

\* a yield hands the next event to the consumer; after the last yield of the
\* code after the loop the generator returns
StreamYield ==
   /\ pendingYields # <<>>
   /\ emitted' = Append(emitted, Head(pendingYields))
   /\ pendingYields' = Tail(pendingYields)
   /\ IF gpc = "finishing" /\ Len(pendingYields) = 1
      THEN gpc' = "returned" /\ ReleaseLock
      ELSE UNCHANGED <<gpc, readerLocked, releases>>
   /\ UNCHANGED <<processor, frames, cutInChar, wire, buffer, carry, completeOutput, model, streamError>>
   /\ UNCHANGED <<retryVars, runVars>>
   /\ UNCHANGED scan
   /\ UNCHANGED other
   /\ UNCHANGED second

\* reader.read() rejects, at any point of the body: the catch block (Groq
\* wraps the error, Google rethrows it, OpenAI has none) and the finally block
StreamReadFails ==
   /\ gpc = "reading"
   /\ pendingYields = <<>>
   /\ gpc' = "threw"
   /\ streamError' = IF processor = "groq"
                     THEN "Failed to process stream: read failed"
                     ELSE "read failed"
   /\ ReleaseLock
   /\ UNCHANGED <<processor, frames, cutInChar, wire, buffer, carry, completeOutput, model,
                  pendingYields, emitted>>
   /\ UNCHANGED <<retryVars, runVars>>
   /\ UNCHANGED scan
   /\ UNCHANGED other
   /\ UNCHANGED second

\* the consumer stops iterating (break, or return() on the generator): a
\* generator that never started just completes; one suspended at a yield
\* runs its finally block
StreamAbandon ==
   /\ gpc = "new" \/ (gpc \in {"reading", "finishing"} /\ emitted # <<>>)
   /\ gpc' = "abandoned"
   /\ pendingYields' = <<>>
   /\ IF gpc = "new" THEN UNCHANGED <<readerLocked, releases>> ELSE ReleaseLock
   /\ UNCHANGED <<processor, frames, cutInChar, wire, buffer, carry, completeOutput, model,
                  emitted, streamError>>
   /\ UNCHANGED <<retryVars, runVars>>
   /\ UNCHANGED scan
   /\ UNCHANGED other
   /\ UNCHANGED second

NextStream ==
   \/ StreamStart
   \/ StreamRead
   \/ StreamEnds
   \/ StreamYield
   \/ StreamReadFails
   \/ StreamAbandon

\* ---- SpecShared: two generators of one adapter's processor ------------------
\* response bodies of two frames that end a stream properly
SharedBodies(p) ==
   CASE p = "groq" ->
          { <<d, <<"data:", "SP", "{", "stop", "}", "LF">> >> :
               d \in { <<"data:", "SP", "{", "a", "}", "LF">>,
                       <<"data:", "SP", "{", "E1", "E2", "}", "LF">> } }
     [] p = "openai" ->
          { <<d, <<"data:", "SP", "{", "completed", "a", "}", "LF">> >> :
               d \in { <<"data:", "SP", "{", "a", "}", "LF">>,
                       <<"data:", "SP", "{", "E1", "E2", "}", "LF">> } }
     [] p = "google" ->
          { <<d, e>> : d, e \in { <<"{", "{", "QT", "a", "QT", "}", "}">>,
                                  <<"{", "QT", "E1", "E2", "QT", "}">> } }

\* the same adapter serves two streaming calls: both generators exist, none
\* has been iterated yet
InitShared ==
   /\ RunAbsent
   /\ RetryConstructed([maxRetries |-> Undef, retryDelay |-> Undef,
                        exponentialBackoff |-> "undefined",
                        retryableStatusCodes |-> [given |-> FALSE, codes |-> {}]])
   /\ processor \in Processors
   /\ frames \in SharedBodies(processor)
   /\ cutInChar = FALSE
   /\ wire = Concat(frames)
   /\ buffer = <<>>
   /\ carry = ""
   /\ completeOutput = <<>>
   /\ model = ""
   /\ gpc = "new"
   /\ readerLocked = FALSE
   /\ releases = 0
   /\ pendingYields = <<>>
   /\ emitted = <<>>
   /\ streamError = ""
   /\ \E f \in SharedBodies(processor) :
         second = [NoSecond EXCEPT !.frames = f, !.wire = Concat(f), !.gpc = "new"]
   /\ scan = NoScan

\* assign the state the second generator worked on from a record computed by
\* ProcessorRead / ProcessorEnd, with its events, position and ghost
SetSecond(r, w, cut, pc) ==
   /\ carry' = r.st.carry
   /\ IF FieldsOnProcessor(processor)
      THEN /\ completeOutput' = r.st.completeOutput
           /\ model' = r.st.model
           /\ second' = [second EXCEPT !.buffer = r.st.buffer, !.wire = w, !.cutInChar = cut,
                                       !.pendingYields = r.events, !.gpc = pc]
      ELSE /\ UNCHANGED <<completeOutput, model>>
           /\ second' = [second EXCEPT !.buffer = r.st.buffer, !.wire = w, !.cutInChar = cut,
                                       !.pendingYields = r.events, !.gpc = pc,
                                       !.completeOutput = r.st.completeOutput,
                                       !.model = r.st.model]

\* the consumer's first next() on the second generator
SecondStart ==
   /\ second.gpc = "new"
   /\ SetSecond([events |-> <<>>,
                 st |-> [buffer |-> <<>>, carry |-> carry, completeOutput |-> <<>>, model |-> ""]],
                second.wire, second.cutInChar, "reading")
   /\ UNCHANGED <<processor, frames, cutInChar, wire, buffer, gpc, readerLocked, releases,
                  pendingYields, emitted, streamError>>
   /\ UNCHANGED <<retryVars, runVars>>
   /\ UNCHANGED scan
   /\ UNCHANGED other

\* reader.read() of the second generator resolves with bytes
SecondRead ==
   /\ second.gpc = "reading"
   /\ second.pendingYields = <<>>
   /\ second.wire # <<>>
   /\ \E n \in 1..Len(second.wire) :
         \E r \in {ProcessorRead(processor, SubSeq(second.wire, 1, n), SecondState)} :
            SetSecond(r, SubSeq(second.wire, n + 1, Len(second.wire)),
                      second.cutInChar \/ second.wire[n] = "E1", "reading")
   /\ UNCHANGED <<processor, frames, cutInChar, wire, buffer, gpc, readerLocked, releases,
                  pendingYields, emitted, streamError>>
   /\ UNCHANGED <<retryVars, runVars>>
   /\ UNCHANGED scan
   /\ UNCHANGED other

\* reader.read() of the second generator resolves with done
SecondEnds ==
   /\ second.gpc = "reading"
   /\ second.pendingYields = <<>>
   /\ second.wire = <<>>
   /\ \E r \in {ProcessorEnd(processor, SecondState)} :
         SetSecond(r, <<>>, second.cutInChar, IF r.events = <<>> THEN "returned" ELSE "finishing")
   /\ UNCHANGED <<processor, frames, cutInChar, wire, buffer, gpc, readerLocked, releases,
                  pendingYields, emitted, streamError>>
   /\ UNCHANGED <<retryVars, runVars>>
   /\ UNCHANGED scan
   /\ UNCHANGED other

\* a yield of the second generator hands its next event to its consumer
SecondYield ==
   /\ second.pendingYields # <<>>
   /\ second' = [second EXCEPT
                   !.emitted = Append(second.emitted, Head(second.pendingYields)),
                   !.pendingYields = Tail(second.pendingYields),
                   !.gpc = IF second.gpc = "finishing" /\ Len(second.pendingYields) = 1
                           THEN "returned" ELSE second.gpc]
   /\ UNCHANGED <<processor, frames, cutInChar, wire, buffer, carry, completeOutput, model, gpc,
                  readerLocked, releases, pendingYields, emitted, streamError>>
   /\ UNCHANGED <<retryVars, runVars>>
   /\ UNCHANGED scan
   /\ UNCHANGED other

NextShared ==
   \/ StreamStart
   \/ StreamRead
   \/ StreamEnds
   \/ StreamYield
   \/ SecondStart
   \/ SecondRead
   \/ SecondEnds
   \/ SecondYield

SpecShared == InitShared /\ [][NextShared]_vars

\* ---- SpecCreate: RunnerClient.create on endpoint lists of any providers ------
\* provider properties as a caller can write them: the three supported names,
\* one of them in another case, an unsupported name, no provider at all
ProviderInputs == SupportedProviders \cup {"OpenAI", "anthropic", MissingProvider}

\* Config objects with n endpoints and any provider in every endpoint; the
\* priority of an endpoint is left out or is the largest one
UncheckedConfigsOfLength(n) ==
   { [llmConfig |-> [k \in 1..n |->
                       [id |-> k, provider |-> pv[k], priority |-> pr[k],
                        stream |-> FALSE,
                        retryConfig |-> [given |-> FALSE, maxRetries |-> Undef,
                                         retryDelay |-> Undef]]],
      enableFallback |-> fb] :
        pv \in [1..n -> ProviderInputs], pr \in [1..n -> {Undef, MaxPriority}],
        fb \in BOOLEAN }

\* RunnerClient.create(config) on any of these configs: the promise resolves
\* with the client (cpc "ready") or rejects with the error of Factory.create
\* (cpc "rejected": the caller holds no client)
CreateUnchecked ==
   /\ cpc = "new"
   /\ \E n \in 1..MaxEndpoints : \E cfg \in UncheckedConfigsOfLength(n) :
         /\ userConfig' = cfg
         /\ config' = setLLMConfigToDefault(cfg)
         /\ LLMClients' = LoadOutcome(setLLMConfigToDefault(cfg)).clients
         /\ cpc' = IF LoadOutcome(setLLMConfigToDefault(cfg)).ok THEN "ready" ELSE "rejected"
   /\ UNCHANGED <<runpc, content, idx, isFallbackUsed, reasonForFallback, result, runError,
                  attempted, ipc, iterError>>
   /\ UNCHANGED httpVars
   /\ UNCHANGED retryVars
   /\ UNCHANGED streamVars
   /\ UNCHANGED other

NextCreate == CreateUnchecked

SpecCreate == InitRun /\ [][NextCreate]_vars

\* ---- SpecScan: extractCompleteJsonObjects on any buffer ---------------------
MaxScanLen == 5

\* the characters of a buffer: the braces, the quote, the backslash, another one
ScanChars == {"{", "}", "QT", "BS", "a"}

\* the strings handed to extractCompleteJsonObjects
ScanBuffers == UNION { [1..n -> ScanChars] : n \in 0..MaxScanLen }

InitScan ==
   /\ RunAbsent
   /\ RetryConstructed([maxRetries |-> Undef, retryDelay |-> Undef,
                        exponentialBackoff |-> "undefined",
                        retryableStatusCodes |-> [given |-> FALSE, codes |-> {}]])
   /\ GeneratorsAbsent
   /\ \E b \in ScanBuffers : scan = [NoScan EXCEPT !.buffer = b]

\* extractCompleteJsonObjects(buffer) is called and returns
ExtractObjects ==
   /\ ~scan.called
   /\ scan' = [buffer |-> scan.buffer, called |-> TRUE,
               objects |-> extractCompleteJsonObjects(scan.buffer).objects,
               remainingBuffer |-> extractCompleteJsonObjects(scan.buffer).remainingBuffer]
   /\ UNCHANGED <<processor, frames, cutInChar, wire, buffer, carry, completeOutput, model, gpc,
                  readerLocked, releases, pendingYields, emitted, streamError, second>>
   /\ UNCHANGED <<retryVars, runVars>>
   /\ UNCHANGED other

NextScan == ExtractObjects

SpecScan == InitScan /\ [][NextScan]_vars

\* ---- SpecHttp: one HttpClient, its requests and their timeout ---------------
InitHttp ==
   /\ RunAbsent
   /\ StreamAbsent
   /\ \E c \in RetryInputs : RetryConstructed(c)

\* HttpClient.request is called: the options with their timeout signal are
\* built, then executeWithRetry(operation) is entered
HttpRequest ==
   /\ rpc \in {"idle", "returned", "thrown"}
   /\ bodyState # "open"
   /\ isStream' \in BOOLEAN
   /\ bodyState' = "none"
   /\ lastResponse' = NoResponse
   /\ createTimeoutSignal
   /\ RetryEnter
   /\ UNCHANGED <<retryInput, retryConfig>>
   /\ UNCHANGED runnerVars
   /\ UNCHANGED streamVars
   /\ UNCHANGED other

\* one invocation of operation settles: undici's request resolves or rejects;
\* a streaming request returns the response body itself, still being received
HttpOperationSettles ==
   /\ \E r \in (IF signalAborted THEN {NoResponse} ELSE Responses \cup {NoResponse}) :
         LET o == IF signalAborted THEN AbortedOutcome
                  ELSE IF r = NoResponse THEN ConnectionFailure
                  ELSE operation(r)
         IN  /\ RetryInvoke(o)
             /\ bodyState' = IF o.ok /\ isStream THEN "open" ELSE "none"
             /\ lastResponse' = r
   /\ UNCHANGED <<signalAborted, firedAt, isStream>>
   /\ UNCHANGED runnerVars
   /\ UNCHANGED streamVars
   /\ UNCHANGED other

\* the timer of createTimeoutSignal, which nothing clears, fires:
\* controller.abort(). While the request is in progress (an attempt in
\* flight, or a backoff sleep between two attempts) the signal is aborted for
\* every attempt; after a streaming request returned, undici aborts the
\* exchange and destroys the body that is still being received
TimeoutFires ==
   /\ rpc \in {"call", "sleep"} \/ (rpc = "returned" /\ bodyState \in {"open", "ended"})
   /\ ~signalAborted
   /\ signalAborted' = TRUE
   /\ firedAt' = IF rpc = "call" THEN invocations + 1 ELSE 0
   /\ bodyState' = IF bodyState = "open" THEN "destroyed" ELSE bodyState
   /\ UNCHANGED <<isStream, lastResponse>>
   /\ UNCHANGED runnerVars
   /\ UNCHANGED retryVars
   /\ UNCHANGED streamVars
   /\ UNCHANGED other

\* the consumer has read the body of a streaming request to its end
BodyEnds ==
   /\ bodyState = "open"
   /\ bodyState' = "ended"
   /\ UNCHANGED <<signalAborted, firedAt, isStream, lastResponse>>
   /\ UNCHANGED runnerVars
   /\ UNCHANGED retryVars
   /\ UNCHANGED streamVars
   /\ UNCHANGED other

NextHttp == HttpRequest \/ HttpOperationSettles \/ TimeoutFires \/ BodyEnds \/ SleepElapses

SpecHttp == InitHttp /\ [][NextHttp]_vars

SpecStream == InitStream /\ [][NextStream]_vars

\* ---- SpecLazy: the generator's steps on bodies of at most MaxLazyFrames frames
InitLazy ==
   /\ InitStream
   /\ Len(frames) <= MaxLazyFrames

SpecLazy == InitLazy /\ [][NextStream]_vars

\* ------------------------------------------------------------------------
\* Claims about the retry handler (checked under SpecRetry)
\* ------------------------------------------------------------------------

\* C1: with a policy maxRetries = n (n >= 0, n = 0 included) the operation is
\* never invoked more than n+1 times, and when every invocation raised a
\* RetryableError executeWithRetry throws after exactly n+1 invocations.
C1_InvokedExactlyNPlusOne ==
   (retryInput.maxRetries # Undef) =>
      /\ invocations <= retryInput.maxRetries + 1
      /\ (rpc = "thrown" /\ onlyRetryable) => invocations = retryInput.maxRetries + 1

\* C2: an operation whose first invocation raises a NonRetryableError is
\* invoked exactly once; that error is rethrown and no backoff delay is
\* computed or slept, whatever maxRetries, the message or the status code.
C2_NonRetryableInvokedOnce ==
   (firstTag = "NonRetryableError") =>
      /\ rpc = "thrown"
      /\ invocations = 1
      /\ delays = <<>>
      /\ thrown = lastError
      /\ thrown.cls = "NonRetryableError"
      /\ thrown.at = 1

\* a NonRetryableError whose message says "timeout" and whose code is 503
\* was raised first, with retry budget left
C2_Witness ==
   /\ firstTag = "NonRetryableError"
   /\ rpc = "thrown"
   /\ retryConfig.maxRetries >= 2
   /\ thrown.message = "request timeout"
   /\ thrown.code = 503

\* the base delay the caller configured (1000 when the option is omitted)
ConfiguredDelay == NullishDefault(retryInput.retryDelay, 1000)

\* d is base * 2^a * (1 + jitter), rounded down, for a jitter in [0, 0.1)
IsBackoffDelay(d, base, a) ==
   /\ base * Pow2(a) <= d
   /\ IF base = 0 THEN d = 0 ELSE d * 10 < base * Pow2(a) * 11

\* C16: with exponential backoff enabled the delay computed before a retry
\* is never smaller than the one computed before the previous retry, and the
\* delay computed after attempt a is baseDelay * 2^a * (1 + jitter) for the
\* configured base delay and a jitter in [0, 0.1).
C16_BackoffMonotone ==
   retryConfig.exponentialBackoff =>
      /\ Len(delays) = 2 => delays[1] <= delays[2]
      /\ \A k \in DOMAIN delays :
            IsBackoffDelay(delays[k], ConfiguredDelay, sleeps - Len(delays) + k - 1)

\* C17: when the retry budget is exhausted executeWithRetry throws the error
\* raised by the last invocation of the operation, not an earlier one and
\* not a wrapper; a RetryableError raised by an earlier invocation is
\* absorbed: nothing is thrown while budget is left, and a RetryableError
\* reaches the caller only from the final attempt.
C17_ThrowsLastError ==
   /\ rpc = "thrown" =>
         /\ thrown # NoError
         /\ thrown = lastError
         /\ thrown.at = invocations
   /\ rpc \in {"call", "sleep", "returned"} => thrown = NoError
   /\ (rpc = "thrown" /\ thrown.cls = "RetryableError") =>
         /\ attempt = retryConfig.maxRetries
         /\ invocations = retryConfig.maxRetries + 1

\* the budget ran out after at least two retries, every invocation having
\* raised a RetryableError
C17_Witness ==
   /\ rpc = "thrown"
   /\ onlyRetryable
   /\ attempt = retryConfig.maxRetries
   /\ invocations >= 3
   /\ sleeps = invocations - 1
   /\ thrown.at = invocations

\* ------------------------------------------------------------------------
\* Claims about RunnerClient (checked under SpecRun)
\* ------------------------------------------------------------------------

\* position of x in sequence s, 0 when absent
Pos(s, x) == IF \E i \in DOMAIN s : s[i] = x THEN CHOOSE i \in DOMAIN s : s[i] = x ELSE 0

\* the reason string names the adapter class `name`
Names(reason, name) == \E k \in DOMAIN reason : reason[k][1] = name

\* C3: two endpoints, the first in priority order failing and the second
\* succeeding, enableFallback = true: run resolves to the second candidate's
\* response, and that response has fallback.isUsed = true and a
\* fallback.reason naming the failed first provider.
C3_WinnerCarriesFallbackInfo ==
   (/\ runpc = "resolved"
    /\ config.enableFallback
    /\ Len(LLMClients) = 2
    /\ Len(reasonForFallback) = 1
    /\ result.kind = "response"
    /\ result.status # "fallback")
   => /\ result.from = LLMClients[2].cfg.id
      /\ result.fallback.present
      /\ result.fallback.isUsed
      /\ Names(result.fallback.reason, LLMClients[1].client.className)

\* C4: with fallback disabled, once the call of the first candidate in
\* priority order has failed run rejects with the aggregate error, and no
\* candidate other than the first is ever invoked.
C4_NoFallbackStopsAtFirstFailure ==
   (cpc = "ready" /\ ~config.enableFallback) =>
      /\ Len(attempted) <= 1
      /\ (attempted # <<>> => attempted[1] = LLMClients[1].cfg.id)
      /\ (reasonForFallback # <<>> =>
            /\ runpc = "rejected"
            /\ Len(reasonForFallback) = 1
            /\ reasonForFallback[1].client = LLMClients[1].client.className
            /\ runError = AggregateError(reasonForFallback)
            /\ result = NoResult)

\* fallback disabled, two endpoints, the first one's request was refused
C4_Witness ==
   /\ ~config.enableFallback
   /\ Len(LLMClients) = 2
   /\ runpc = "rejected"
   /\ reasonForFallback = <<[client |-> LLMClients[1].client.className, error |-> "unauthorized"]>>

C6_SingleWinner ==
   (runpc = "resolved" /\ result.from # 0) =>
      /\ idx \in DOMAIN LLMClients
      /\ result = IF LLMClients[idx].cfg.stream
                  THEN AdapterGenerator(LLMClients[idx])
                  ELSE AdapterResponse(LLMClients[idx])
      /\ result.output \in {<<>>, <<LLMClients[idx].cfg.id>>}
      /\ Len(reasonForFallback) = idx - 1
      /\ attempted = [j \in 1..idx |-> LLMClients[j].cfg.id]

\* the first of two candidates won after an HTTP request; the second was not invoked
C6_Witness ==
   /\ runpc = "resolved"
   /\ Len(LLMClients) = 2
   /\ result.kind = "response"
   /\ result.from = LLMClients[1].cfg.id
   /\ attempted = <<LLMClients[1].cfg.id>>

\* C7: for two endpoints with configured integer priorities p < q (p = 0
\* included), the endpoint with priority p is attempted before the endpoint
\* with priority q, whatever their positions in the supplied list.
C7_AscendingPriorityOrder ==
   \A a, b \in DOMAIN userConfig.llmConfig :
      LET ea == userConfig.llmConfig[a]
          eb == userConfig.llmConfig[b]
      IN  (/\ ea.priority # Undef
           /\ eb.priority # Undef
           /\ ea.priority < eb.priority
           /\ Pos(attempted, eb.id) > 0)
          => /\ Pos(attempted, ea.id) > 0
             /\ Pos(attempted, ea.id) < Pos(attempted, eb.id)

\* C8: endpoints with equal configured priority (both omitted included) are
\* attempted in the order of the supplied list.
C8_TiesInListOrder ==
   \A a, b \in DOMAIN userConfig.llmConfig :
      LET ea == userConfig.llmConfig[a]
          eb == userConfig.llmConfig[b]
      IN  (a < b /\ ea.priority = eb.priority /\ Pos(attempted, eb.id) > 0)
          => /\ Pos(attempted, ea.id) > 0
             /\ Pos(attempted, ea.id) < Pos(attempted, eb.id)

\* two endpoints that both omit priority; both were attempted
C8_Witness ==
   /\ Len(userConfig.llmConfig) = 2
   /\ userConfig.llmConfig[1].priority = Undef
   /\ userConfig.llmConfig[2].priority = Undef
   /\ attempted = <<1, 2>>

\* C9: the failure of a streaming candidate's request is recorded in
\* reasonForFallback inside run; it never first reaches the caller as an
\* error thrown while iterating the returned stream.
C9_StreamFailureHandledInRun ==
   (ipc = "failed" /\ validateContents(LLMClients[idx].client.provider, content) = "") =>
      \E k \in DOMAIN reasonForFallback :
         reasonForFallback[k] = [client |-> LLMClients[idx].client.className, error |-> iterError]


\* the messages the content validators throw
ValidationMessages == {"Contents array cannot be empty", "Content must have at least one part"}

\* C18: for every client configuration, run() called with an empty message
\* list or with a message that has no parts raises a validation error to
\* the caller; no HTTP request is issued for any candidate and no retry is
\* performed.
C18_ValidationRaisedNoRequest ==
   (runpc # "idle" /\ Len(LLMClients) > 0 /\ content \in {"empty", "noParts"}) =>
      /\ runpc = "rejected"
      /\ \/ runError.message \in ValidationMessages
         \/ \E k \in DOMAIN runError.reasons : runError.reasons[k][2] \in ValidationMessages
      /\ rpc = "idle"
      /\ invocations = 0
      /\ sleeps = 0
      /\ ipc = "none"

\* a step of one run() that moves the loop from a candidate with a request
\* issued to a later candidate with a request issued
NextCandidateRequested ==
   /\ runpc = "calling"
   /\ runpc' = "calling"
   /\ idx' # idx

\* while a request or a backoff sleep of the current candidate is in
\* progress no step starts another candidate, and the handler at work is the
\* current candidate's own
OneCandidateInProgress ==
   /\ runpc = "calling" =>
         /\ retryConfig = LLMClients[idx].client.retryHandler
         /\ attempted # <<>>
         /\ attempted[Len(attempted)] = LLMClients[idx].cfg.id
   /\ (runpc = "calling" /\ rpc \in {"call", "sleep"}) =>
         /\ runpc' = "calling"
         /\ idx' = idx
         /\ attempted' = attempted
         /\ reasonForFallback' = reasonForFallback

C20_TimeoutPerAttempt ==
   (lastError.name = "AbortError") =>
      /\ signalAborted
      /\ isRetryableError(retryConfig, lastError)
      /\ lastError.at = firedAt

\* C21: a request timeout that fires after a streaming request has already
\* returned its byte stream to the caller does not cancel that stream: the
\* consumer can still read the stream to its end.
C21_TimeoutLeavesReturnedStream ==
   (isStream /\ rpc = "returned" /\ signalAborted) => bodyState \in {"open", "ended"}

\* C22: an HTTP response with status 429, 500, 502, 503 or 504 reaches the
\* retry handler as a RetryableError (and is retried within budget), a
\* response with any other 4xx status reaches it as a NonRetryableError (and
\* is never retried), and an HTTP error response is never returned to the
\* adapter as a successful result.
C22_StatusClassification ==
   (lastResponse # NoResponse /\ lastResponse.statusCode >= 400) =>
      /\ rpc # "returned"
      /\ lastError.at = invocations
      /\ lastResponse.statusCode \in {429, 500, 502, 503, 504} =>
            /\ lastError.cls = "RetryableError"
            /\ rpc = "thrown" => attempt = retryConfig.maxRetries
      /\ lastResponse.statusCode \in {400, 404} =>
            /\ lastError.cls = "NonRetryableError"
            /\ rpc = "thrown"

\* the candidates of the run in progress that failed, in the order they were
\* attempted: all the attempted ones but one still being called or the winner
FailedCandidates ==
   IF runpc = "calling" \/ (runpc = "resolved" /\ result.from # 0)
   THEN SubSeq(attempted, 1, Len(attempted) - 1)
   ELSE attempted

\* `${client}: ${error}` for every failed candidate, in the order of the attempts
ExpectedEnumeration ==
   [k \in 1..Len(FailedCandidates) |->
      <<ClassName(config.llmConfig[FailedCandidates[k]].provider), reasonForFallback[k].error>>]

\* C23: the fallback trace of a run has exactly one entry per failed
\* candidate, in the order the candidates were attempted (a failure appends
\* one entry, carrying the adapter's name and the message of the error it
\* threw), and the message of an error thrown by run(), like fallback.reason
\* of a degraded response, enumerates every attempted provider with its
\* failure reason, comma-joined in that order.
C23_TraceEnumeratesFailures ==
   [][ (cpc = "ready" /\ runpc # "idle" /\ Len(LLMClients) > 0) =>
         /\ Len(reasonForFallback) = Len(FailedCandidates)
         /\ \A k \in DOMAIN reasonForFallback :
               /\ reasonForFallback[k].client = ClassName(config.llmConfig[FailedCandidates[k]].provider)
               /\ reasonForFallback[k].error # ""
         /\ runpc = "rejected" =>
               /\ Len(runError.reasons) = Len(attempted)
               /\ runError.reasons = ExpectedEnumeration
         /\ (runpc = "resolved" /\ result.status = "fallback") =>
               /\ Len(result.fallback.reason) = Len(attempted)
               /\ result.fallback.reason = ExpectedEnumeration
         /\ (runpc = "calling" /\ runpc' # "idle" /\ rpc = "thrown") =>
               /\ Len(reasonForFallback') >= Len(reasonForFallback) + 1
               /\ SubSeq(reasonForFallback', 1, Len(reasonForFallback)) = reasonForFallback
               /\ reasonForFallback'[Len(reasonForFallback) + 1] =
                     [client |-> LLMClients[idx].client.className, error |-> thrown.message] ]_vars

\* run resolved to a degraded response after two candidates of different
\* providers failed for different reasons
C23_Witness ==
   /\ runpc = "resolved"
   /\ result.status = "fallback"
   /\ Len(result.fallback.reason) = 2
   /\ attempted = <<LLMClients[1].cfg.id, LLMClients[2].cfg.id>>
   /\ result.fallback.reason[1][1] # result.fallback.reason[2][1]
   /\ result.fallback.reason[1][2] = "unauthorized"
   /\ result.fallback.reason[2][2] = "rate limited"

\* run has settled with exactly one of its three outcomes
DeterminateOutcome ==
   \/ /\ runpc = "resolved"
      /\ runError = NoRunError
      /\ result.from # 0
      /\ result.kind \in {"response", "generator"}
   \/ /\ runpc = "resolved"
      /\ runError = NoRunError
      /\ config.enableFallback
      /\ result.kind = "response"
      /\ result.status = "fallback"
      /\ Len(reasonForFallback) = Len(LLMClients)
   \/ /\ runpc = "rejected"
      /\ result = NoResult
      /\ ~config.enableFallback
      /\ runError.message = "All LLM clients failed"
      /\ runError.reasons # <<>>

C25_ShapeFromWinnerFlag ==
   (runpc = "resolved" /\ result.from # 0) =>
      \E k \in DOMAIN LLMClients :
         /\ LLMClients[k].cfg.id = result.from
         /\ k = idx
         /\ result.kind = IF LLMClients[k].cfg.stream THEN "generator" ELSE "response"

\* a streaming candidate won after a non-streaming candidate failed
C25_Witness ==
   /\ Len(LLMClients) = 2
   /\ runpc = "resolved"
   /\ idx = 2
   /\ result.from = LLMClients[2].cfg.id
   /\ ~LLMClients[1].cfg.stream
   /\ LLMClients[2].cfg.stream
   /\ result.kind = "generator"
   /\ Len(reasonForFallback) = 1

\* ------------------------------------------------------------------------
\* Claims about the stream processors (checked under SpecStream)
\* ------------------------------------------------------------------------
RECURSIVE CountType(_, _)
CountType(events, type) ==
   IF events = <<>> THEN 0
   ELSE (IF Head(events).type = type THEN 1 ELSE 0) + CountType(Tail(events), type)

\* C10: when the byte stream ended without an I/O error and the consumer has
\* drained the generator, exactly one 'completed' event was emitted: never
\* zero, never two, whether or not the frames held a terminal marker.
C10_ExactlyOneCompleted ==
   gpc = "returned" => CountType(emitted, "completed") = 1


\* the tokens of the 'delta' events of a sequence of events, in order
RECURSIVE DeltaTokens(_)
DeltaTokens(events) ==
   IF events = <<>> THEN <<>>
   ELSE (IF Head(events).type = "delta" THEN <<Head(events).token>> ELSE <<>>)
        \o DeltaTokens(Tail(events))

\* the completeOutput of the 'completed' events of a sequence of events, in order
RECURSIVE CompletedOutputs(_)
CompletedOutputs(events) ==
   IF events = <<>> THEN <<>>
   ELSE (IF Head(events).type = "completed" THEN <<Head(events).completeOutput>> ELSE <<>>)
        \o CompletedOutputs(Tail(events))

\* the tokens carried by the frames fs, frame by frame, in the order of the body
RECURSIVE FrameTokens(_, _)
FrameTokens(p, fs) ==
   IF fs = <<>> THEN <<>>
   ELSE DeltaTokens(Normalize(p, Head(fs))) \o FrameTokens(p, Tail(fs))

\* a is b with some elements left out
RECURSIVE IsSubseq(_, _)
IsSubseq(a, b) ==
   IF a = <<>> THEN TRUE
   ELSE IF b = <<>> THEN FALSE
   ELSE IF Head(a) = Head(b) THEN IsSubseq(Tail(a), Tail(b))
   ELSE IsSubseq(a, Tail(b))

\* the elements of s that are elements of the sequence t, in the order of s
Common(s, t) == SelectSeq(s, LAMBDA x : \E k \in DOMAIN t : t[k] = x)

\* C11: the 'delta' events delivered so far carry the tokens of the frames of
\* the body in the order of the frames, and a 'completed' event is the last
\* event: no event of any type is delivered after it.
C11_DeltasInOrderCompletedLast ==
   /\ IsSubseq(Common(DeltaTokens(emitted), FrameTokens(processor, frames)),
               FrameTokens(processor, frames))
   /\ \A i \in DOMAIN emitted : emitted[i].type = "completed" => i = Len(emitted)


\* C12: a body of zero bytes (end of stream on the first read) gives exactly
\* one event, a 'completed' event with empty completeOutput and a status
\* that tells there was no content; no other event is emitted.
C12_EmptyStreamOneCompleted ==
   (gpc = "returned" /\ frames = <<>>) =>
      /\ Len(emitted) = 1
      /\ emitted[1].type = "completed"
      /\ emitted[1].completeOutput = <<>>
      /\ emitted[1].status \notin {"", "completed"}


\* C13: whatever the cuts of the body into reads, as long as no read ends
\* between the bytes of one character, the drained generator has delivered
\* the same 'delta' tokens and the same completeOutput as for the whole body
\* arriving in a single read.
C13_ChunkingInvariance ==
   (gpc = "returned" /\ ~cutInChar) =>
      /\ DeltaTokens(emitted) = DeltaTokens(Normalize(processor, Concat(frames)))
      /\ CompletedOutputs(emitted) = CompletedOutputs(Normalize(processor, Concat(frames)))


\* the frame of the alphabet that is delimited like any other and does not parse
MalformedFrame(p) ==
   IF p = "google" THEN <<"{", "a", "}">> ELSE <<"data:", "SP", "{", "a", "LF">>

\* the body is a frame that carries text, the malformed frame, and a frame
\* that carries text
MalformedBetweenValid ==
   /\ Len(frames) = 3
   /\ frames[2] = MalformedFrame(processor)
   /\ DeltaTokens(Normalize(processor, frames[1])) # <<>>
   /\ DeltaTokens(Normalize(processor, frames[3])) # <<>>

\* C14: a frame that does not parse is skipped: with a malformed frame
\* between two frames that carry text, the drained generator has delivered
\* the 'delta' events of both frames, in order, and its last event is the
\* 'completed' event.
C14_MalformedFrameSkipped ==
   (gpc = "returned" /\ ~cutInChar /\ MalformedBetweenValid) =>
      /\ DeltaTokens(emitted) = DeltaTokens(Normalize(processor, frames[1]))
                                \o DeltaTokens(Normalize(processor, frames[3]))
      /\ emitted[Len(emitted)].type = "completed"


\* the reader lock is released exactly once on every exit path of a
\* generator that took it, and is held in between
LockReleasedOnce ==
   /\ releases <= 1
   /\ readerLocked <=> gpc \in {"reading", "finishing"}
   /\ gpc \in {"returned", "threw"} => releases = 1
   /\ gpc = "abandoned" => releases = (IF emitted = <<>> THEN 0 ELSE 1)

\* C15: when a read of the body fails the consumer gets an error, and when it
\* fails before the whole body was read no 'completed' event was emitted
\* for that stream; the reader lock taken by
\* the generator is released exactly once on normal completion, on a read
\* failure and when the consumer abandons the sequence.
C15_ReadFailureNoCompleted ==
   /\ gpc = "threw" => streamError # ""
   /\ (gpc = "threw" /\ wire # <<>>) => CountType(emitted, "completed") = 0
   /\ LockReleasedOnce

\* the 'completed' events of a sequence of events, in order
CompletedEvents(events) == SelectSeq(events, LAMBDA e : e.type = "completed")

\* the 'completed' events a stream must deliver by itself: those the
\* processor yields for the stream's own body, read alone
OwnCompleted(fs) == CompletedEvents(Normalize(processor, Concat(fs)))

\* C26: the state of a stream normaliser is private to one stream: when two
\* streams of the same client are consumed interleaved, the 'completed' event
\* of each stream that has ended (and had no read boundary inside a
\* character) carries the output and the model of its own body, as if the
\* other stream did not exist.
C26_StreamStatePrivate ==
   /\ (gpc = "returned" /\ ~cutInChar) => CompletedEvents(emitted) = OwnCompleted(frames)
   /\ (second.gpc = "returned" /\ ~second.cutInChar)
         => CompletedEvents(second.emitted) = OwnCompleted(second.frames)

\* both of two candidates were attempted and failed with rejected
\* credentials, fallback enabled, and run has settled
BothCredentialsRejected ==
   /\ config.enableFallback
   /\ Len(LLMClients) = 2
   /\ Len(reasonForFallback) = 2
   /\ \A k \in 1..2 : reasonForFallback[k].error = "unauthorized"
   /\ runpc \in {"resolved", "rejected"}

\* C27: when every configured provider fails (two providers with invalid
\* credentials, enableFallback = true), create(config) followed by
\* run(messages) raises an Error to the caller.
C27_AllProvidersFailRaises ==
   BothCredentialsRejected => (runpc = "rejected" /\ runError # NoRunError)

\* endpoint k of the config handed to create has no provider, or names a
\* provider that is none of openai, google, groq (in any case of the letters)
BadEndpoint(k) ==
   \/ userConfig.llmConfig[k].provider = MissingProvider
   \/ toLowerCase(userConfig.llmConfig[k].provider) \notin {"openai", "google", "groq"}

\* C28: create(config) rejects with an error and yields no client when any
\* endpoint config lacks a provider or names a provider other than openai,
\* google or groq, even when other endpoints of the list are valid and
\* fallback is enabled.
C28_BadProviderRejectsCreate ==
   (cpc # "new" /\ \E k \in DOMAIN userConfig.llmConfig : BadEndpoint(k))
      => cpc = "rejected"

\* create was rejected for a list whose first endpoint is valid and whose
\* second names an unsupported provider, with fallback enabled
C28_Witness ==
   /\ cpc = "rejected"
   /\ Len(userConfig.llmConfig) = 2
   /\ userConfig.enableFallback
   /\ userConfig.llmConfig[1].provider = "openai"
   /\ userConfig.llmConfig[2].provider = "anthropic"
   /\ Len(LLMClients) = 1

\* the characters of buf that are read as structure: those outside
\* double-quoted strings, the quotes themselves left out. Inside a string a
\* backslash takes the next character with it.
RECURSIVE StructuralFrom(_, _, _)
StructuralFrom(buf, i, inStr) ==
   IF i > Len(buf) THEN {}
   ELSE IF inStr
   THEN IF buf[i] = "BS" THEN StructuralFrom(buf, i + 2, TRUE)
        ELSE StructuralFrom(buf, i + 1, buf[i] # "QT")
   ELSE IF buf[i] = "QT" THEN StructuralFrom(buf, i + 1, TRUE)
   ELSE {i} \cup StructuralFrom(buf, i + 1, FALSE)

Structural(buf) == StructuralFrom(buf, 1, FALSE)

\* opening minus closing structural braces of buf[i..j]
Balance(buf, i, j) ==
   Cardinality({k \in i..j : k \in Structural(buf) /\ buf[k] = "{"})
   - Cardinality({k \in i..j : k \in Structural(buf) /\ buf[k] = "}"})

\* the brace at j closes the object opened by the brace at i
ClosesAt(buf, i, j) ==
   /\ j \in Structural(buf)
   /\ buf[j] = "}"
   /\ Balance(buf, i, j) = 0
   /\ \A k \in i..(j - 1) : Balance(buf, i, k) > 0

\* the complete top-level objects of buf from position p on, in order, and the
\* tail from the first top-level brace that is never closed
RECURSIVE TopLevelObjects(_, _)
TopLevelObjects(buf, p) ==
   LET opens == {i \in p..Len(buf) : i \in Structural(buf) /\ buf[i] = "{"} IN
   IF opens = {} THEN [objects |-> <<>>, remainingBuffer |-> <<>>]
   ELSE LET i == CHOOSE x \in opens : \A y \in opens : x <= y
            ends == {j \in (i + 1)..Len(buf) : ClosesAt(buf, i, j)}
        IN  IF ends = {} THEN [objects |-> <<>>, remainingBuffer |-> SubSeq(buf, i, Len(buf))]
            ELSE LET j == CHOOSE x \in ends : TRUE
                     rest == TopLevelObjects(buf, j + 1)
                 IN  [objects |-> <<SubSeq(buf, i, j)>> \o rest.objects,
                      remainingBuffer |-> rest.remainingBuffer]

\* C29: extractCompleteJsonObjects returns, in order, exactly the complete
\* top-level brace-delimited objects of the buffer, braces being counted only
\* outside double-quoted strings (a brace inside a string and a
\* backslash-escaped quote inside a string change neither depth nor string
\* state), and returns as remaining buffer the unfinished tail that starts at
\* the first unclosed top-level opening brace.
C29_ExtractsTopLevelObjects ==
   scan.called =>
      /\ scan.objects = TopLevelObjects(scan.buffer, 1).objects
      /\ scan.remainingBuffer = TopLevelObjects(scan.buffer, 1).remainingBuffer

\* every frame of the body is complete: read alone and in one piece, it
\* leaves nothing in the buffer of the processor
CompleteFrames ==
   \A k \in DOMAIN frames :
      ProcessorRead(processor, frames[k],
                    [buffer |-> <<>>, carry |-> "", completeOutput |-> <<>>, model |-> ""]).st.buffer
         = <<>>

\* C30: decoding keeps the continuation state of a multi-byte character
\* across reads: when a read boundary fell between the bytes of one character
\* of a body of complete frames, the drained generator of every processor has
\* delivered the same 'delta' tokens and the same completeOutput as for the
\* unsplit body.
C30_SplitCharacterDecoded ==
   (gpc = "returned" /\ cutInChar /\ CompleteFrames) =>
      /\ DeltaTokens(emitted) = DeltaTokens(Normalize(processor, Concat(frames)))
      /\ CompletedOutputs(emitted) = CompletedOutputs(Normalize(processor, Concat(frames)))

\* e carries neither tag and is neither a connection failure nor a timeout
UntaggedOther(e) ==
   /\ e.cls = "Error"
   /\ ~(e.name = "TypeError" /\ MessageIncludes(e.message, "fetch"))
   /\ e.name # "AbortError"
   /\ ~MessageIncludes(e.message, "timeout")

\* C31: retry classification is default-deny: when an invocation with retry
\* budget left raised an error with neither tag that is not a connection or
\* timeout failure, a retry follows (the handler sleeps) if and only if the
\* error carries an HTTP status code of the policy's retryableStatusCodes;
\* otherwise the error is thrown at once (after a single invocation when it
\* was the first).
C31_DefaultDeny ==
   (/\ rpc \in {"sleep", "thrown"}
    /\ attempt < retryConfig.maxRetries
    /\ UntaggedOther(lastError))
   => /\ (rpc = "sleep") <=> (lastError.code \in retryConfig.retryableStatusCodes)
      /\ rpc = "thrown" => (thrown = lastError /\ invocations = attempt + 1)

\* the ids of the first n candidates in the order of the client's list
FirstCandidates(n) == [j \in 1..n |-> LLMClients[j].cfg.id]

\* C32: the fallback decision of run does not depend on the kind of error a
\* candidate raised (a retryable error after exhaustion, a non-retryable
\* error, a validation error, any other exception): the candidates attempted
\* and the kind of outcome are determined by the number n of candidates that
\* have failed and by enableFallback alone. With fallback disabled the first
\* failure ends the run with the aggregate error; with fallback enabled the
\* candidate after a failed one is attempted next, and the run resolves to
\* the degraded response exactly when all have failed.
C32_FallbackIgnoresErrorKind ==
   (cpc = "ready" /\ runpc # "idle" /\ Len(LLMClients) > 0) =>
      LET n == Len(reasonForFallback) IN
      /\ n <= Len(LLMClients)
      /\ Len(attempted) \in {n, n + 1}
      /\ Len(attempted) <= Len(LLMClients)
      /\ attempted = FirstCandidates(Len(attempted))
      /\ (n >= 1 /\ ~config.enableFallback) =>
            (runpc = "rejected" /\ n = 1 /\ Len(attempted) = 1)
      /\ (config.enableFallback /\ n < Len(LLMClients)) =>
            /\ runpc \in {"calling", "resolved"}
            /\ Len(attempted) = n + 1
            /\ runpc = "resolved" => result.from # 0
      /\ (config.enableFallback /\ n = Len(LLMClients)) =>
            (runpc = "resolved" /\ result.status = "fallback" /\ Len(attempted) = n)

\* two candidates failed with errors of different kinds, a validation error
\* and a non-retryable error of the provider, and the run fell back after each
C32_Witness ==
   /\ cpc = "ready"
   /\ config.enableFallback
   /\ Len(LLMClients) = 2
   /\ Len(reasonForFallback) = 2
   /\ reasonForFallback[1].error = "Content must have at least one part"
   /\ reasonForFallback[2].error = "unauthorized"
   /\ attempted = FirstCandidates(2)
   /\ runpc = "resolved"

\* the frames of a processor that decode and carry incremental text, each
\* with the text it carries
TextFrames(p) ==
   IF p = "google"
   THEN { <<<<"{", "{", "QT", "a", "QT", "}", "}">>, <<"a">>>>,
          <<<<"{", "QT", "E1", "E2", "QT", "}">>, <<"E">>>>,
          <<<<"{", "QT", "SP", "QT", "}">>, <<"SP">>>>,
          <<<<"{", "QT", "}", "BS", "QT", "QT", "}">>, <<"}", "QT">>>> }
   ELSE { <<<<"data:", "SP", "{", "a", "}", "LF">>, <<"a">>>>,
          <<<<"data:", "SP", "{", "E1", "E2", "}", "LF">>, <<"E">>>>,
          <<<<"data:", "SP", "{", "SP", "}", "LF">>, <<"SP">>>> }

\* the text carried by the text frame f
CarriedText(p, f) == (CHOOSE x \in TextFrames(p) : x[1] = f)[2]

\* every frame of the body is a text frame
OnlyTextFrames == \A k \in DOMAIN frames : \E x \in TextFrames(processor) : x[1] = frames[k]

\* C33: every successfully decoded frame that carries incremental text, text
\* of whitespace only included, yields exactly one 'delta' event whose token
\* is that text, and the token is appended to the aggregate: once a body of
\* text frames is drained (no read having cut a character) the 'delta'
\* tokens are the texts of the frames, one per frame and in order, and the
\* accumulator of the processor (Groq and Google keep one) holds their
\* concatenation.
C33_OneDeltaPerTextFrame ==
   (gpc = "returned" /\ ~cutInChar /\ OnlyTextFrames) =>
      /\ DeltaTokens(emitted) = [k \in DOMAIN frames |-> CarriedText(processor, frames[k])]
      /\ processor # "openai" =>
            completeOutput = Concat([k \in DOMAIN frames |-> CarriedText(processor, frames[k])])

\* C34: in a stream consumed on its own, the completeOutput of every
\* 'completed' event delivered equals the concatenation, in the order of
\* emission, of the tokens of all 'delta' events delivered before it.
C34_CompletedIsConcatenation ==
   \A k \in DOMAIN emitted :
      emitted[k].type = "completed" =>
         emitted[k].completeOutput = Concat(DeltaTokens(SubSeq(emitted, 1, k - 1)))

\* s is what is left of t after some first elements were taken
IsSuffix(s, t) == Len(s) <= Len(t) /\ s = SubSeq(t, Len(t) - Len(s) + 1, Len(t))

\* C35: the event sequence is lazy and consumes the byte stream once. Bytes
\* are taken from the body only by a generator the consumer has started and
\* that has not seen the end of the stream, thrown or been abandoned, and
\* only when every event decoded from the bytes already read has been
\* delivered; what is read is the next bytes of the body, never bytes read
\* before; after the end of the stream was observed nothing is read or
\* decoded any more.
C35_LazySingleConsumption ==
   [][ /\ wire' # wire =>
            /\ gpc = "reading"
            /\ pendingYields = <<>>
            /\ Len(wire') < Len(wire)
            /\ IsSuffix(wire', wire)
       /\ gpc \notin {"new", "reading"} =>
            /\ wire' = wire
            /\ IsSuffix(pendingYields', pendingYields)
            /\ gpc' # "reading"
     ]_vars

\* an event decoded from the bytes read so far is waiting for the consumer
\* while bytes of the body are still unread
C35_Witness ==
   /\ gpc = "reading"
   /\ Len(pendingYields) >= 1
   /\ wire # <<>>
   /\ IsSuffix(wire, Concat(frames))
   /\ Len(wire) < Len(Concat(frames))

\* C36: in executeWithRetry exactly one backoff sleep separates two consecutive
\* invocations of the operation, and no sleep follows the invocation that ends
\* the call: while the handler is about to invoke the operation or sleeps,
\* as many sleeps have started as invocations were made; once the call has
\* returned or thrown (a success, a non-retryable failure, the failure that
\* exhausts the budget) there is one sleep less than invocations; and every
\* step that invokes the operation is taken with the sleeps even with the
\* invocations, every step that starts a sleep right after an invocation.
SleepsSeparateInvocations ==
   /\ rpc \in {"call", "sleep"} => sleeps = invocations
   /\ rpc \in {"returned", "thrown"} => (invocations >= 1 /\ sleeps = invocations - 1)
   /\ rpc = "sleep" => (invocations >= 1 /\ attempt = invocations - 1)
   /\ rpc = "call" => attempt = invocations

C36_OneSleepBetweenInvocations ==
   [][ /\ SleepsSeparateInvocations
       /\ SleepsSeparateInvocations'
       /\ invocations' > invocations =>
             (rpc = "call" /\ invocations' = invocations + 1 /\ sleeps' \in {sleeps, sleeps + 1})
       /\ (sleeps' > sleeps) =>
             (rpc = "call" /\ rpc' = "sleep" /\ invocations' = invocations + 1)
       /\ rpc \in {"returned", "thrown"} => sleeps' <= sleeps ]_vars

\* a call that ended after three invocations and two sleeps
C36_Witness ==
   /\ rpc \in {"returned", "thrown"}
   /\ invocations = 3
   /\ sleeps = 2

\* C37: run() does not change the client's candidate set: in every step taken
\* once create() has returned the client (a run starting, an attempt settling,
\* a candidate failing or returning, a generator being iterated) the list of
\* (config, adapter) pairs and its order stay what they were, which is what
\* loadLLMClients made of the normalized config in create(); the config
\* itself stays the same, and the candidates a run has attempted are the
\* first ones of that list, in its order.
C37_RunKeepsCandidates ==
   [][ /\ (cpc = "new" /\ cpc' = "ready") => LLMClients' = loadLLMClients(config')
       /\ cpc = "ready" =>
             /\ cpc' = "ready"
             /\ config' = config
             /\ LLMClients' = LLMClients
             /\ attempted' = [j \in 1..Len(attempted') |-> LLMClients[j].cfg.id] ]_vars

\* a run on a client of two candidates was rejected after the first one
\* failed, and the list is still the one create() built
C37_Witness ==
   /\ cpc = "ready"
   /\ runpc = "rejected"
   /\ Len(LLMClients) = 2
   /\ LLMClients[1].cfg.id # LLMClients[2].cfg.id
   /\ attempted = <<LLMClients[1].cfg.id>>
   /\ LLMClients = loadLLMClients(config)

\* the entries of `trace` are failures of the candidates a call attempted
\* (`att`, the first candidates of the list), one entry at most per candidate
\* and in their order
OwnFailures(trace, att) ==
   /\ Len(att) <= Len(LLMClients)
   /\ Len(trace) \in {Len(att) - 1, Len(att)}
   /\ \A k \in DOMAIN att : att[k] = LLMClients[k].cfg.id
   /\ \A k \in DOMAIN trace : trace[k].client = LLMClients[k].client.className

\* what a call at position pc reports is made of its own trace
ReportsOwnTrace(pc, res, err, trace, att) ==
   /\ pc # "idle" => OwnFailures(trace, att)
   /\ pc = "resolved" => (Len(trace) = Len(att) <=> res = DegradedResponse(trace))
   /\ pc = "rejected" => /\ Len(trace) = Len(att)
                         /\ err = AggregateError(trace)

\* C38: the fallback trace is per run: the fallback.reason or the error
\* message a run() produces lists the failures of the candidates attempted
\* in that run, one per candidate that failed in it and in their order, and
\* nothing else, whether other calls of run on the same client ended before
\* it or are in progress at the same time.
C38_TracePerRun ==
   /\ ReportsOwnTrace(runpc, result, runError, reasonForFallback, attempted)
   /\ ReportsOwnTrace(other.pc, other.result, other.runError, other.trace, other.attempted)

\* one call fell back after both of its candidates failed while another
\* call, whose first candidate failed for a different reason, awaits its
\* second candidate
C38_Witness ==
   /\ runpc = "resolved"
   /\ Len(reasonForFallback) = 2
   /\ result = DegradedResponse(reasonForFallback)
   /\ other.pc = "calling"
   /\ other.idx = 2
   /\ Len(other.trace) = 1
   /\ other.trace[1].error # reasonForFallback[1].error

====
